---- MODULE Spec2Model ----
(***************************************************************************)
(* Trade-journal report pipeline of src/src/services/tradeJournal.ts (the  *)
(* revision starting at line 537) and the upload route of                  *)
(* src/src/routes/tradeJournal.routes.ts.                                  *)
(*                                                                         *)
(* Numbers: quantities and prices are integers; charges, P&L and averages  *)
(* are exact rationals <<n, d>> (d > 0, lowest terms), so pro-rating is    *)
(* computed as the code computes it, without floating-point noise.         *)
(* Dates are day numbers and times are minutes after midnight; NoTime is   *)
(* the missing Time ("" in the code, read as "00:00").                     *)
(***************************************************************************)
EXTENDS Integers, Sequences, FiniteSets, TLC

\* ------------------------------------------------------------------ bounds
MaxTrades == 3
MaxQty == 2

\* --------------------------------------------------------------- rationals
Abs(n) == IF n < 0 THEN -n ELSE n

RECURSIVE GCD(_, _)
GCD(a, b) == IF b = 0 THEN a ELSE GCD(b, a % b)

RNorm(n, d) == LET g == GCD(Abs(n), d) IN <<n \div g, d \div g>>
RInt(k) == <<k, 1>>
RAdd(x, y) == RNorm(x[1] * y[2] + y[1] * x[2], x[2] * y[2])
RSub(x, y) == RNorm(x[1] * y[2] - y[1] * x[2], x[2] * y[2])
RMul(x, y) == RNorm(x[1] * y[1], x[2] * y[2])
RDivInt(x, k) == RNorm(x[1], x[2] * k)
RLt(x, y) == x[1] * y[2] < y[1] * x[2]
RLe(x, y) == x[1] * y[2] <= y[1] * x[2]
RAbs(x) == <<Abs(x[1]), x[2]>>
RZero == RInt(0)

\* r2: Math.round((n + EPSILON) * 100) / 100, Math.round being floor(y + 1/2)
r2(x) == RNorm((200 * x[1] + x[2]) \div (2 * x[2]), 100)

\* sums over a finite index set
RECURSIVE SumFn(_, _)
SumFn(S, f) ==
    IF S = {} THEN 0
    ELSE LET x == CHOOSE y \in S : TRUE IN f[x] + SumFn(S \ {x}, f)

RECURSIVE RSumFn(_, _)
RSumFn(S, f) ==
    IF S = {} THEN RZero
    ELSE LET x == CHOOSE y \in S : TRUE IN RAdd(f[x], RSumFn(S \ {x}, f))

SumOver(S, F(_)) == SumFn(S, [x \in S |-> F(x)])
RSumOver(S, F(_)) == RSumFn(S, [x \in S |-> F(x)])

\* ------------------------------------------------------------------ trades
NoTime == -1
NoPrice == -1
MinutesPerDay == 1440

Symbols == {"ABC", "XYZ"}
\* the symbols in localeCompare order
SymbolOrder == <<"ABC", "XYZ">>
Directions == {"Buy", "Sell"}

\* new Date(`${Date}T${Time || "00:00"}`).getTime(), in minutes
TimeOf(t) == t.Date * MinutesPerDay + (IF t.Time = NoTime THEN 0 ELSE t.Time)

\* rawPrice of a leg on side `side`: buyPriceRaw ?? Price, sellPriceRaw ?? Price
RawPrice(l, side) ==
    IF side = "Buy"
    THEN (IF l.buyPriceRaw # NoPrice THEN l.buyPriceRaw ELSE l.Price)
    ELSE (IF l.sellPriceRaw # NoPrice THEN l.sellPriceRaw ELSE l.Price)

\* ----------------------------------------------------------------- pairing
Min(a, b) == IF a < b THEN a ELSE b

\* .filter(t => t.Symbol && t.Direction && t.Quantity && t.Price !== undefined)
TradeFilter(t) == t.Symbol # "" /\ t.Direction \in Directions /\ t.Quantity # 0

\* a slip that leaves the trades in the order of the file
InsertAtEnd(sorted, t) == Append(sorted, t)

\* .sort((a, b) => time(a) - time(b)): stable, ascending
RECURSIVE InsertByTime(_, _)
InsertByTime(sorted, t) ==
    IF sorted = <<>> THEN <<t>>
    ELSE IF TimeOf(sorted[Len(sorted)]) <= TimeOf(t) THEN Append(sorted, t)
    ELSE Append(InsertByTime(SubSeq(sorted, 1, Len(sorted) - 1), t), sorted[Len(sorted)])

RECURSIVE SortByTimeFrom(_, _, _)
SortByTimeFrom(ts, i, acc) ==
    IF i > Len(ts) THEN acc ELSE SortByTimeFrom(ts, i + 1, InsertByTime(acc, ts[i]))

SortedTrades(ts) == SortByTimeFrom(SelectSeq(ts, TradeFilter), 1, <<>>)

\* const prorate = (charges, usedQty, fullQty) => ...
prorate(charges, usedQty, fullQty) ==
    LET f == IF fullQty > 0 THEN fullQty ELSE usedQty
    IN  IF f <= 0 THEN RZero ELSE RDivInt(RMul(charges, RInt(usedQty)), f)

\* entryLegUsed = { ...entryLeg, Quantity: closeQty, Charges: prorate(...) }
EntryLegUsed(entryLeg, closeQty) ==
    [entryLeg EXCEPT !.Quantity = closeQty,
                     !.Charges = prorate(entryLeg.Charges, closeQty, entryLeg.fullQty)]

\* a slip that keeps the whole incoming quantity on the exit leg
ExitLegWhole(trade, closeQty) ==
    [trade EXCEPT !.Charges = prorate(trade.Charges, closeQty, trade.fullQty)]

\* exitLeg = { ...trade, Quantity: closeQty, Charges: prorate(...) }
ExitLeg(trade, closeQty) ==
    [trade EXCEPT !.Quantity = closeQty,
                  !.Charges = prorate(trade.Charges, closeQty, trade.fullQty)]

\* a slip that keeps a front leg the slice has used up
FrontLegStaysUsedUp(entryLeg, closeQty) == entryLeg.Quantity >= closeQty

\* if (entryLeg.Quantity > closeQty)
FrontLegStays(entryLeg, closeQty) == entryLeg.Quantity > closeQty

\* a slip that leaves a partly consumed front leg at its old quantity
AfterSliceNoDecrement(openLegs, closeQty) ==
    IF openLegs[1].Quantity > closeQty THEN openLegs ELSE Tail(openLegs)

\* if (entryLeg.Quantity > closeQty) entryLeg.Quantity -= closeQty; else openLegs.shift();
AfterSlice(openLegs, closeQty) ==
    IF FrontLegStays(openLegs[1], closeQty)
    THEN [openLegs EXCEPT ![1].Quantity = @ - closeQty]
    ELSE Tail(openLegs)

\* the round-trip pushed by one iteration of the close loop
SliceRoundTrip(entryLeg, trade, closeQty) ==
    LET entryLegUsed == EntryLegUsed(entryLeg, closeQty)
        exitLeg == ExitLeg(trade, closeQty)
        gross == IF entryLegUsed.Direction = "Buy"
                 THEN (exitLeg.Price - entryLegUsed.Price) * closeQty
                 ELSE (entryLegUsed.Price - exitLeg.Price) * closeQty
        sliceCharges == RAdd(entryLegUsed.Charges, exitLeg.Charges)
    IN  [symbol |-> trade.Symbol,
         entry |-> entryLegUsed,
         exit |-> exitLeg,
         PnL |-> RSub(RInt(gross), sliceCharges),
         holdingMinutes |-> TimeOf(exitLeg) - TimeOf(entryLegUsed)]

\* while (openLegs.length && qtyToClose > 0) { ... }
RECURSIVE CloseLoop(_, _, _, _)
CloseLoop(trade, openLegs, qtyToClose, roundTrips) ==
    IF Len(openLegs) = 0 \/ qtyToClose <= 0
    THEN [openLegs |-> openLegs, qtyToClose |-> qtyToClose, roundTrips |-> roundTrips]
    ELSE LET entryLeg == openLegs[1]
             closeQty == Min(qtyToClose, entryLeg.Quantity)
         IN  CloseLoop(trade,
                       AfterSlice(openLegs, closeQty),
                       qtyToClose - closeQty,
                       Append(roundTrips, SliceRoundTrip(entryLeg, trade, closeQty)))

\* the legacy pairing, which drops what is left of a closing trade
PushRemainderDropped(openLegs, trade, qtyToClose) == openLegs

\* if (qtyToClose > 0) openPositions[symbol].push({ ...trade, Quantity: qtyToClose, Charges: prorate(...) })
PushRemainder(openLegs, trade, qtyToClose) ==
    IF qtyToClose > 0
    THEN Append(openLegs,
                [trade EXCEPT !.Quantity = qtyToClose,
                              !.Charges = prorate(trade.Charges, qtyToClose, trade.fullQty)])
    ELSE openLegs

\* a stack instead of a queue
PushLegFront(openLegs, trade) == <<trade>> \o openLegs

\* openLegs.push({ ...trade, _fullQty: trade._fullQty ?? trade.Quantity })
PushLeg(openLegs, trade) == Append(openLegs, trade)

\* the body of `for (const trade of sorted)`
PairTrade(st, trade) ==
    LET symbol == trade.Symbol
        openLegs == st.openPositions[symbol]
    IN  IF Len(openLegs) > 0 /\ trade.Direction # openLegs[1].Direction
        THEN LET r == CloseLoop(trade, openLegs, trade.Quantity, st.roundTrips)
             IN  [roundTrips |-> r.roundTrips,
                  openPositions |->
                      [st.openPositions EXCEPT
                          ![symbol] = PushRemainder(r.openLegs, trade, r.qtyToClose)]]
        ELSE [roundTrips |-> st.roundTrips,
              openPositions |->
                  [st.openPositions EXCEPT ![symbol] = PushLeg(openLegs, trade)]]

RECURSIVE PairFrom(_, _, _)
PairFrom(sorted, i, st) ==
    IF i > Len(sorted) THEN st ELSE PairFrom(sorted, i + 1, PairTrade(st, sorted[i]))

pairRoundTripsAndOpen(ts) ==
    PairFrom(SortedTrades(ts), 1,
             [roundTrips |-> <<>>, openPositions |-> [s \in Symbols |-> <<>>]])

\* ---------------------------------------------------------- open positions
RECURSIVE NetQty(_, _)
NetQty(legs, i) ==
    IF i > Len(legs) THEN 0
    ELSE (IF legs[i].Direction = "Buy" THEN legs[i].Quantity ELSE -legs[i].Quantity)
         + NetQty(legs, i + 1)

\* a slip that weighs each leg by its full, not its remaining, quantity
LegWeightFull(l) == l.fullQty

\* const q = l.Quantity || 0
LegWeight(l) == l.Quantity

RECURSIVE WNotional(_, _, _)
WNotional(legs, side, i) ==
    IF i > Len(legs) THEN 0
    ELSE (IF legs[i].Direction = side
          THEN RawPrice(legs[i], side) * LegWeight(legs[i]) ELSE 0)
         + WNotional(legs, side, i + 1)

RECURSIVE WQty(_, _, _)
WQty(legs, side, i) ==
    IF i > Len(legs) THEN 0
    ELSE (IF legs[i].Direction = side THEN LegWeight(legs[i]) ELSE 0)
         + WQty(legs, side, i + 1)

\* the OpenPosition of one symbol's leftover legs (legs non-empty, net # 0)
OpenPositionOf(symbol, legs) ==
    LET qty == NetQty(legs, 1)
        side == IF qty > 0 THEN "Buy" ELSE "Sell"
        wQty == WQty(legs, side, 1)
        avgPrice == IF wQty # 0 THEN RNorm(WNotional(legs, side, 1), wQty) ELSE RZero
    IN  [symbol |-> symbol, side |-> side, quantity |-> Abs(qty), avgPrice |-> r2(avgPrice)]

RECURSIVE OpenPositionsFrom(_, _)
OpenPositionsFrom(openLegsBySymbol, i) ==
    IF i > Len(SymbolOrder) THEN <<>>
    ELSE LET symbol == SymbolOrder[i]
             legs == openLegsBySymbol[symbol]
             rest == OpenPositionsFrom(openLegsBySymbol, i + 1)
         IN  IF Len(legs) = 0 \/ NetQty(legs, 1) = 0 THEN rest
             ELSE <<OpenPositionOf(symbol, legs)>> \o rest

buildOpenPositionsFromOpenLegs(openLegsBySymbol) == OpenPositionsFrom(openLegsBySymbol, 1)

\* ------------------------------------------------- raw headline and tables
\* the first loop of computePairedHeadlineFromRawSymbolFilter: withBuy and withSell
RECURSIVE SidesSeen(_, _, _)
SidesSeen(ts, i, seen) ==
    IF i > Len(ts) THEN seen
    ELSE LET t == ts[i]
         IN  SidesSeen(ts, i + 1,
                 IF t.Symbol = "" THEN seen
                 ELSE IF t.Direction = "Buy"
                 THEN [seen EXCEPT !.withBuy = @ \cup {t.Symbol}]
                 ELSE IF t.Direction = "Sell"
                 THEN [seen EXCEPT !.withSell = @ \cup {t.Symbol}]
                 ELSE seen)

\* a slip that pairs a symbol only when its first row is a Buy and a Sell follows
PairedSymbolsBuyFirst(ts) ==
    {sym \in Symbols :
        \E i \in DOMAIN ts :
            /\ ts[i].Symbol = sym /\ ts[i].Direction = "Buy"
            /\ \A j \in DOMAIN ts : j < i => ts[j].Symbol # sym
            /\ \E j \in DOMAIN ts : ts[j].Symbol = sym /\ ts[j].Direction = "Sell"}

\* new Set([...withBuy].filter(s => withSell.has(s)))
PairedSymbols(ts) ==
    LET seen == SidesSeen(ts, 1, [withBuy |-> {}, withSell |-> {}])
    IN  seen.withBuy \cap seen.withSell

ZeroAgg ==
    [buyQty |-> 0, sellQty |-> 0, buyNotional |-> 0, sellNotional |-> 0, charges |-> RZero]

\* the body of the accumulating loops: quantity and raw notional by side, full row charges
AddRow(a, t) ==
    LET q == t.Quantity
        price == RawPrice(t, t.Direction)
    IN  IF t.Direction = "Buy"
        THEN [a EXCEPT !.buyQty = @ + q, !.buyNotional = @ + price * q,
                       !.charges = RAdd(@, t.Charges)]
        ELSE [a EXCEPT !.sellQty = @ + q, !.sellNotional = @ + price * q,
                       !.charges = RAdd(@, t.Charges)]

\* the second loop of computePairedHeadlineFromRawSymbolFilter
RECURSIVE HeadlineAgg(_, _, _, _)
HeadlineAgg(ts, pairedSymbols, i, a) ==
    IF i > Len(ts) THEN a
    ELSE HeadlineAgg(ts, pairedSymbols, i + 1,
             IF ts[i].Symbol = "" \/ ts[i].Symbol \notin pairedSymbols THEN a
             ELSE AddRow(a, ts[i]))

AvgBuyOf(a) == IF a.buyQty # 0 THEN RNorm(a.buyNotional, a.buyQty) ELSE RZero
AvgSellOf(a) == IF a.sellQty # 0 THEN RNorm(a.sellNotional, a.sellQty) ELSE RZero
\* (sellNotional - buyNotional) - charges
NetOf(a) == RSub(RInt(a.sellNotional - a.buyNotional), a.charges)

computePairedHeadlineFromRawSymbolFilter(ts) ==
    LET pairedSymbols == PairedSymbols(ts)
        a == HeadlineAgg(ts, pairedSymbols, 1, ZeroAgg)
    IN  [buyQty |-> a.buyQty,
         sellQty |-> a.sellQty,
         avgBuy |-> r2(AvgBuyOf(a)),
         avgSell |-> r2(AvgSellOf(a)),
         charges |-> r2(a.charges),
         netPnl |-> r2(NetOf(a)),
         pairedSymbols |-> pairedSymbols]

\* the Map `per` of buildRawScripSummary: keys in order of first appearance, one Agg each
RECURSIVE PerSymbol(_, _, _, _)
PerSymbol(ts, pairedSymbols, i, per) ==
    IF i > Len(ts) THEN per
    ELSE LET t == ts[i]
         IN  PerSymbol(ts, pairedSymbols, i + 1,
                 IF t.Symbol = "" \/ t.Symbol \notin pairedSymbols THEN per
                 ELSE IF \E k \in DOMAIN per.keys : per.keys[k] = t.Symbol
                 THEN [per EXCEPT !.agg[t.Symbol] = AddRow(@, t)]
                 ELSE [keys |-> Append(per.keys, t.Symbol),
                       agg |-> [per.agg EXCEPT ![t.Symbol] = AddRow(ZeroAgg, t)]])

\* rows.push({ symbol, quantity, avgBuy, avgSell, charges, netRealized })
ScripRow(symbol, a) ==
    [symbol |-> symbol,
     quantity |-> Min(a.buyQty, a.sellQty),
     avgBuy |-> r2(AvgBuyOf(a)),
     avgSell |-> r2(AvgSellOf(a)),
     charges |-> r2(a.charges),
     netRealized |-> r2(NetOf(a))]

\* rows.sort((x, y) => y.netRealized - x.netRealized): stable, descending
RECURSIVE InsertByNet(_, _)
InsertByNet(sorted, row) ==
    IF sorted = <<>> THEN <<row>>
    ELSE IF RLe(row.netRealized, sorted[Len(sorted)].netRealized) THEN Append(sorted, row)
    ELSE Append(InsertByNet(SubSeq(sorted, 1, Len(sorted) - 1), row), sorted[Len(sorted)])

RECURSIVE SortByNetFrom(_, _, _)
SortByNetFrom(rows, i, acc) ==
    IF i > Len(rows) THEN acc ELSE SortByNetFrom(rows, i + 1, InsertByNet(acc, rows[i]))

buildRawScripSummary(ts, pairedSymbols) ==
    LET per == PerSymbol(ts, pairedSymbols, 1,
                         [keys |-> <<>>, agg |-> [s \in Symbols |-> ZeroAgg]])
        rows == [k \in DOMAIN per.keys |-> ScripRow(per.keys[k], per.agg[per.keys[k]])]
    IN  SortByNetFrom(rows, 1, <<>>)

\* ------------------------------------------------------------------ tagger
standardDemons ==
    <<"POOR RISK/REWARD TRADE", "HELD LOSS TOO LONG", "PREMATURE EXIT", "REVENGE TRADING",
      "OVERTRADING", "WRONG POSITION SIZE", "CHASED ENTRY", "MISSED STOP LOSS">>

standardGood ==
    <<"GOOD RISK/REWARD", "PROPER ENTRY", "PROPER EXIT", "FOLLOWED PLAN",
      "STOP LOSS RESPECTED", "HELD FOR TARGET", "DISCIPLINED">>

minGoodRR == <<6, 5>>
maxRiskPercent == 2
overtradeLimit == 5
\* "09:20"
earlyEntryCutoff == 560
revengeWindowMins == 15
SLTolerance == <<13, 10>>
capital == 100000
NoDate == -1

Range(f) == {f[i] : i \in DOMAIN f}
Includes(seq, x) == \E i \in DOMAIN seq : seq[i] = x
Tag(cond, name) == IF cond THEN <<name>> ELSE <<>>

\* Array.from(new Set(xs)): first occurrences, in order
RECURSIVE Dedup(_, _, _)
Dedup(xs, i, acc) ==
    IF i > Len(xs) THEN acc
    ELSE Dedup(xs, i + 1, IF Includes(acc, xs[i]) THEN acc ELSE Append(acc, xs[i]))

\* wins, losses, profitSum, lossSum of the first KPI loop
RECURSIVE Kpi(_, _, _)
Kpi(rts, i, k) ==
    IF i > Len(rts) THEN k
    ELSE LET p == rts[i].PnL
         IN  Kpi(rts, i + 1,
                 IF RLt(RZero, p)
                 THEN [k EXCEPT !.wins = @ + 1, !.profitSum = RAdd(@, p)]
                 ELSE IF RLt(p, RZero)
                 THEN [k EXCEPT !.losses = @ + 1, !.lossSum = RAdd(@, RAbs(p))]
                 ELSE k)

KpiOf(rts) == Kpi(rts, 1, [wins |-> 0, losses |-> 0, profitSum |-> RZero, lossSum |-> RZero])
AvgWinOf(k) == IF k.wins # 0 THEN RDivInt(k.profitSum, k.wins) ELSE RZero
AvgLossOf(k) == IF k.losses # 0 THEN RDivInt(k.lossSum, k.losses) ELSE RZero

\* Number.POSITIVE_INFINITY, written as the fraction 1/0
Infinity == <<1, 0>>

\* a slip that reports 0 when there is profit and no loss
ProfitFactorZeroWithoutLoss(profitSum, lossSum) ==
    IF lossSum = RZero THEN RZero
    ELSE RNorm(profitSum[1] * lossSum[2], profitSum[2] * lossSum[1])

\* lossSum === 0 ? (profitSum > 0 ? Infinity : 0) : profitSum / lossSum
ProfitFactor(profitSum, lossSum) ==
    IF lossSum = RZero THEN (IF RLt(RZero, profitSum) THEN Infinity ELSE RZero)
    ELSE RNorm(profitSum[1] * lossSum[2], profitSum[2] * lossSum[1])

\* tradeDates: the exit dates of the round-trips, in order of first appearance
RECURSIVE TradeDatesFrom(_, _, _)
TradeDatesFrom(rts, i, dates) ==
    IF i > Len(rts) THEN dates
    ELSE TradeDatesFrom(rts, i + 1,
             IF Includes(dates, rts[i].exit.Date) THEN dates
             ELSE Append(dates, rts[i].exit.Date))

\* pnlByDate[d]: the summed PnL of the round-trips that exit on date d
RECURSIVE PnlOfDate(_, _, _)
PnlOfDate(rts, d, i) ==
    IF i > Len(rts) THEN RZero
    ELSE RAdd(IF rts[i].exit.Date = d THEN rts[i].PnL ELSE RZero, PnlOfDate(rts, d, i + 1))

\* roundTrips.length ? (wins / roundTrips.length) * 100 : 0
TradeWinPercent(rts, k) == IF Len(rts) # 0 THEN RNorm(k.wins * 100, Len(rts)) ELSE RZero

\* tradeDates.length ? (days with pnl > 0 / tradeDates.length) * 100 : 0
DayWinPercent(rts) ==
    LET tradeDates == TradeDatesFrom(rts, 1, <<>>)
        winDays == {j \in DOMAIN tradeDates : RLt(RZero, PnlOfDate(rts, tradeDates[j], 1))}
    IN  IF Len(tradeDates) # 0
        THEN RNorm(Cardinality(winDays) * 100, Len(tradeDates)) ELSE RZero

\* Math.round(x): floor(x + 1/2)
MathRound(x) == (2 * x[1] + x[2]) \div (2 * x[2])

\* Math.max(0, Math.round(Math.min(100, 80 * 0.4 + tradeWinPercent * 0.3 + dayWinPercent * 0.3)))
UpholicScore(tradeWinPercent, dayWinPercent) ==
    LET raw == RAdd(RInt(32), RAdd(RMul(tradeWinPercent, <<3, 10>>),
                                   RMul(dayWinPercent, <<3, 10>>)))
        capped == IF RLt(RInt(100), raw) THEN RInt(100) ELSE raw
        rounded == MathRound(capped)
    IN  IF rounded < 0 THEN 0 ELSE rounded

\* a slip that looks at the time window only, not at the direction of the last loss
IsRevengeAnyDirection(t, prevLossExitTime, prevLossDirection) ==
    LET minsDiff == TimeOf(t.entry) - prevLossExitTime
    IN  /\ prevLossExitTime # NoDate /\ t.entry.Time # NoTime /\ RLt(t.PnL, RZero)
        /\ minsDiff >= 0 /\ minsDiff <= revengeWindowMins

\* if (prevLossExitTime && t.entry.Time && t.PnL < 0 && prevLossDirection === t.entry.Direction)
\*   { minsDiff = ...; if (minsDiff >= 0 && minsDiff <= revengeWindowMins) push }
IsRevenge(t, prevLossExitTime, prevLossDirection) ==
    LET minsDiff == TimeOf(t.entry) - prevLossExitTime
    IN  /\ prevLossExitTime # NoDate /\ t.entry.Time # NoTime /\ RLt(t.PnL, RZero)
        /\ prevLossDirection = t.entry.Direction
        /\ minsDiff >= 0 /\ minsDiff <= revengeWindowMins

\* the demon tags pushed for one round-trip, in push order
DemonsOf(t, avgWin, avgLoss, tradeNumberToday, prevLossExitTime, prevLossDirection) ==
    LET win == RLt(RZero, t.PnL)
        loss == RLt(t.PnL, RZero)
        riskAmt == t.entry.stopDistance * (IF t.entry.Quantity # 0 THEN t.entry.Quantity ELSE 1)
        riskAmtApprox == Abs((t.entry.Price - t.exit.Price)
                             * (IF t.entry.Quantity # 0 THEN t.entry.Quantity ELSE 1))
    IN  Tag(win /\ t.entry.stopDistance > 0
                /\ RLt(IF riskAmt > 0 THEN RDivInt(t.PnL, riskAmt) ELSE RZero, minGoodRR),
            "POOR RISK/REWARD TRADE")
        \o Tag(loss /\ t.holdingMinutes > 90, "HELD LOSS TOO LONG")
        \o Tag(win /\ t.holdingMinutes < 8 /\ RLt(t.PnL, RMul(avgWin, <<4, 5>>)),
               "PREMATURE EXIT")
        \o Tag(loss /\ RLt(RAbs(RMul(avgLoss, SLTolerance)), RAbs(t.PnL)), "MISSED STOP LOSS")
        \o Tag(t.entry.Time # NoTime /\ t.entry.Time < earlyEntryCutoff, "CHASED ENTRY")
        \o Tag(\/ 100 * riskAmtApprox > capital * maxRiskPercent
               \/ RLt(RZero, avgLoss) /\ RLt(RMul(avgLoss, <<5, 2>>), RInt(riskAmtApprox)),
               "WRONG POSITION SIZE")
        \o Tag(tradeNumberToday > overtradeLimit, "OVERTRADING")
        \o Tag(IsRevenge(t, prevLossExitTime, prevLossDirection), "REVENGE TRADING")

\* the good-practice tags pushed for one round-trip, in push order
GoodOf(t, demons, avgLoss) ==
    LET win == RLt(RZero, t.PnL)
        loss == RLt(t.PnL, RZero)
        withinSL == RLe(RAbs(t.PnL), RAbs(RMul(avgLoss, SLTolerance)))
        notEarly == t.entry.Time = NoTime \/ t.entry.Time >= earlyEntryCutoff
        respectedSL == (RLe(t.PnL, RZero) /\ withinSL) \/ win
        firstFive ==
            Tag(win /\ RLt(RZero, avgLoss) /\ RLe(RAbs(RMul(avgLoss, minGoodRR)), t.PnL),
                "GOOD RISK/REWARD")
            \o Tag(~Includes(demons, "CHASED ENTRY") /\ notEarly /\ respectedSL, "PROPER ENTRY")
            \o Tag(~Includes(demons, "PREMATURE EXIT") /\ ~Includes(demons, "MISSED STOP LOSS"),
                   "PROPER EXIT")
            \o Tag(loss /\ withinSL, "STOP LOSS RESPECTED")
            \o Tag(win /\ t.holdingMinutes > 12 /\ RLt(RAbs(RMul(avgLoss, minGoodRR)), t.PnL),
                   "HELD FOR TARGET")
    IN  firstFive \o Tag(Len(demons) = 0 /\ Len(firstFive) >= 2, "DISCIPLINED")

\* a slip that calls every losing round-trip a bad trade, tagged or not
IsBadTradeAnyLoss(DemonArr, PnL) == RLt(PnL, RZero)

\* t.isBadTrade = t.DemonArr.length > 0 && t.PnL < 0
IsBadTrade(DemonArr, PnL) == Len(DemonArr) > 0 /\ RLt(PnL, RZero)

\* a slip that forgets the "no demon" condition of a good trade
IsGoodTradeAnyDemons(DemonArr, GoodPracticeArr, PnL) ==
    /\ Len(GoodPracticeArr) >= 2
    /\ (RLt(RZero, PnL) \/ Includes(GoodPracticeArr, "STOP LOSS RESPECTED"))

\* t.isGoodTrade = GoodPracticeArr.length >= 2 && DemonArr.length === 0 && (PnL > 0 || ...)
IsGoodTrade(DemonArr, GoodPracticeArr, PnL) ==
    /\ Len(GoodPracticeArr) >= 2
    /\ Len(DemonArr) = 0
    /\ (RLt(RZero, PnL) \/ Includes(GoodPracticeArr, "STOP LOSS RESPECTED"))

\* a slip that counts a bad trade in the bucket of every one of its tags
AddBadEveryTag(summary, DemonArr, cost) ==
    [d \in DOMAIN summary |->
        IF Includes(DemonArr, d)
        THEN [count |-> summary[d].count + 1, totalCost |-> RAdd(summary[d].totalCost, cost)]
        ELSE summary[d]]

\* const main = t.DemonArr[0]; if (main) { badTagSummary[main].count++; ...totalCost += cost }
AddBad(summary, DemonArr, cost) ==
    IF Len(DemonArr) = 0 THEN summary
    ELSE [summary EXCEPT ![DemonArr[1]] = [count |-> @.count + 1,
                                           totalCost |-> RAdd(@.totalCost, cost)]]

\* const main = t.GoodPracticeArr[0]; if (main) { goodTagSummary[main].count++; ... }
AddGood(summary, GoodPracticeArr, profit) ==
    IF Len(GoodPracticeArr) = 0 THEN summary
    ELSE [summary EXCEPT ![GoodPracticeArr[1]] = [count |-> @.count + 1,
                                                  totalProfit |-> RAdd(@.totalProfit, profit)]]

\* a slip that numbers the round-trips of the whole report instead of those of the day
TradeNumberOverall(dayOrdinal, day) == SumFn(DOMAIN dayOrdinal, dayOrdinal) + 1

\* dayOrdinal[day] = (dayOrdinal[day] || 0) + 1; const tradeNumberToday = dayOrdinal[day]
TradeNumberToday(dayOrdinal, day) ==
    (IF day \in DOMAIN dayOrdinal THEN dayOrdinal[day] ELSE 0) + 1

\* one iteration of `for (const t of roundTrips)` of the tagging loop
TagTrip(g, t, avgWin, avgLoss) ==
    LET day == t.exit.Date
        tradeNumberToday == TradeNumberToday(g.dayOrdinal, day)
        demons == DemonsOf(t, avgWin, avgLoss, tradeNumberToday,
                           g.prevLossExitTime, g.prevLossDirection)
        good == GoodOf(t, demons, avgLoss)
        DemonArr == Dedup(demons, 1, <<>>)
        GoodPracticeArr == Dedup(good, 1, <<>>)
        isBad == IsBadTrade(DemonArr, t.PnL)
        isGood == IsGoodTrade(DemonArr, GoodPracticeArr, t.PnL)
        loss == RLt(t.PnL, RZero)
        win == RLt(RZero, t.PnL)
        tagged == [symbol |-> t.symbol, entry |-> t.entry, exit |-> t.exit, PnL |-> t.PnL,
                   holdingMinutes |-> t.holdingMinutes,
                   DemonArr |-> DemonArr, GoodPracticeArr |-> GoodPracticeArr,
                   isBadTrade |-> isBad, isGoodTrade |-> isGood]
    IN  [trades |-> Append(g.trades, tagged),
         dayOrdinal |-> [d \in DOMAIN g.dayOrdinal \cup {day} |->
                            IF d = day THEN tradeNumberToday ELSE g.dayOrdinal[d]],
         prevLossExitTime |-> IF loss THEN TimeOf(t.exit) ELSE g.prevLossExitTime,
         prevLossDirection |-> IF loss THEN t.entry.Direction ELSE g.prevLossDirection,
         enteredTooSoonCount |->
             g.enteredTooSoonCount + (IF Includes(demons, "CHASED ENTRY") THEN 1 ELSE 0),
         totalBadTradeCost |->
             IF isBad /\ loss THEN RAdd(g.totalBadTradeCost, RAbs(t.PnL))
             ELSE g.totalBadTradeCost,
         totalGoodTradeProfit |->
             IF isGood /\ win THEN RAdd(g.totalGoodTradeProfit, t.PnL)
             ELSE g.totalGoodTradeProfit,
         badTagSummary |->
             IF isBad /\ loss
             THEN AddBad(g.badTagSummary, DemonArr, RAbs(t.PnL))
             ELSE g.badTagSummary,
         goodTagSummary |->
             IF isGood /\ win
             THEN AddGood(g.goodTagSummary, GoodPracticeArr, t.PnL)
             ELSE g.goodTagSummary]

RECURSIVE TagFrom(_, _, _, _, _)
TagFrom(rts, i, g, avgWin, avgLoss) ==
    IF i > Len(rts) THEN g
    ELSE TagFrom(rts, i + 1, TagTrip(g, rts[i], avgWin, avgLoss), avgWin, avgLoss)

TagInit ==
    [trades |-> <<>>,
     dayOrdinal |-> <<>>,
     prevLossExitTime |-> NoDate,
     prevLossDirection |-> "",
     enteredTooSoonCount |-> 0,
     totalBadTradeCost |-> RZero,
     totalGoodTradeProfit |-> RZero,
     badTagSummary |-> [d \in Range(standardDemons) |-> [count |-> 0, totalCost |-> RZero]],
     goodTagSummary |-> [d \in Range(standardGood) |-> [count |-> 0, totalProfit |-> RZero]]]

\* Object.entries(badTagSummary).sort((a, b) => b[1].count - a[1].count): stable,
\* descending by count, from the insertion order of standardDemons
RECURSIVE InsertByCount(_, _, _)
InsertByCount(sorted, d, summary) ==
    IF sorted = <<>> THEN <<d>>
    ELSE IF summary[d].count <= summary[sorted[Len(sorted)]].count THEN Append(sorted, d)
    ELSE Append(InsertByCount(SubSeq(sorted, 1, Len(sorted) - 1), d, summary),
                sorted[Len(sorted)])

RECURSIVE SortByCountFrom(_, _, _)
SortByCountFrom(summary, i, acc) ==
    IF i > Len(standardDemons) THEN acc
    ELSE SortByCountFrom(summary, i + 1, InsertByCount(acc, standardDemons[i], summary))

\* .slice(0, 3).map(([d]) => d)
DemonFinder(summary) == SubSeq(SortByCountFrom(summary, 1, <<>>), 1, 3)

\* scripSummary.reduce((s, r) => s + r.netRealized, 0), and the same for r.charges
RECURSIVE ScripNetSum(_, _)
ScripNetSum(rows, i) ==
    IF i > Len(rows) THEN RZero ELSE RAdd(rows[i].netRealized, ScripNetSum(rows, i + 1))

RECURSIVE ScripChargesSum(_, _)
ScripChargesSum(rows, i) ==
    IF i > Len(rows) THEN RZero ELSE RAdd(rows[i].charges, ScripChargesSum(rows, i + 1))

\* export function processTrades(trades: Trade[]): Stats
processTrades(ts) ==
    LET paired == pairRoundTripsAndOpen(ts)
        pairedRaw == computePairedHeadlineFromRawSymbolFilter(ts)
        scripSummary == buildRawScripSummary(ts, pairedRaw.pairedSymbols)
        k == KpiOf(paired.roundTrips)
        avgWin == AvgWinOf(k)
        avgLoss == AvgLossOf(k)
        tradeWinPercent == TradeWinPercent(paired.roundTrips, k)
        dayWinPercent == DayWinPercent(paired.roundTrips)
        g == TagFrom(paired.roundTrips, 1, TagInit, avgWin, avgLoss)
    IN  [netPnl |-> r2(pairedRaw.netPnl),
         pnlBasis |-> "PAIRED_RAW",
         totalsCheck |-> [netPnlFromScrips |-> r2(ScripNetSum(scripSummary, 1)),
                          chargesFromScrips |-> r2(ScripChargesSum(scripSummary, 1))],
         tradeWinPercent |-> r2(tradeWinPercent),
         profitFactor |-> ProfitFactor(k.profitSum, k.lossSum),
         dayWinPercent |-> r2(dayWinPercent),
         avgWinLoss |-> [avgWin |-> r2(avgWin), avgLoss |-> r2(avgLoss)],
         upholicScore |-> UpholicScore(tradeWinPercent, dayWinPercent),
         upholicPointers |-> [patience |-> 80,
                              demonFinder |-> DemonFinder(g.badTagSummary),
                              planOfAction |-> <<>>],
         trades |-> g.trades,
         tradeDates |-> TradeDatesFrom(paired.roundTrips, 1, <<>>),
         empty |-> Len(paired.roundTrips) = 0,
         totalBadTradeCost |-> r2(g.totalBadTradeCost),
         totalGoodTradeProfit |-> r2(g.totalGoodTradeProfit),
         badTradeCounts |-> g.badTagSummary,
         goodTradeCounts |-> g.goodTagSummary,
         standardDemons |-> standardDemons,
         standardGood |-> standardGood,
         enteredTooSoonCount |-> g.enteredTooSoonCount,
         scripSummary |-> scripSummary,
         pairedTotals |-> [buyQty |-> pairedRaw.buyQty,
                           sellQty |-> pairedRaw.sellQty,
                           avgBuy |-> pairedRaw.avgBuy,
                           avgSell |-> pairedRaw.avgSell,
                           charges |-> pairedRaw.charges,
                           netPnl |-> pairedRaw.netPnl],
         openPositions |-> buildOpenPositionsFromOpenLegs(paired.openPositions)]

\* ------------------------------------------------------- the report machine
VARIABLES
    trades,     \* the Trade list parseUniversalTradebook has built so far
    stats,      \* the Stats processTrades returned, NoStats before the call
    clients,    \* the clients that send upload requests
    req,        \* per client, the upload handler's locals and position
    db,         \* the executed_trades collection: key -> number of documents
    lastStats,  \* let lastStats: Stats | null = null
    uploaded,   \* the files whose upload was answered with success
    pairing     \* the locals and position of a call of pairRoundTripsAndOpen

vars == <<trades, stats, clients, req, db, lastStats, uploaded, pairing>>
uploadVars == <<clients, req, db, lastStats, uploaded>>

NoStats == [empty |-> "none"]

\* the fills of the order book: date, time, price and summed charges of an execution
\* (1 has no time cell, 2 is 09:16, 3 is 09:30, 4 is 09:18 on the next day)
Fills ==
    <<[Date |-> 1, Time |-> NoTime, Price |-> 10, Charges |-> 0],
      [Date |-> 1, Time |-> 556, Price |-> 11, Charges |-> 6],
      [Date |-> 1, Time |-> 570, Price |-> 12, Charges |-> 3],
      [Date |-> 2, Time |-> 558, Price |-> 10, Charges |-> 6]>>

Quantities == 1..MaxQty

Row(symbol, side, quantity, fill) ==
    [Symbol |-> symbol, Side |-> side, Quantity |-> quantity, Price |-> Fills[fill].Price,
     Charges |-> Fills[fill].Charges, Date |-> Fills[fill].Date, Time |-> Fills[fill].Time]

\* the data rows an order book is made of. XYZ: the second fill, whose charges are the
\* ones pro-rated across slices, in every quantity; the first and third fills in one or
\* two units; the next-day fill as a purchase of one unit or a sale of one or two.
\* ABC: single units at the second fill.
Rows ==
    {Row("XYZ", side, q, 2) : side \in Directions, q \in Quantities}
    \cup {Row("XYZ", side, q, f) : side \in Directions, q \in {1, 2}, f \in {1, 3}}
    \cup {Row("XYZ", "Sell", q, 4) : q \in {1, 2}}
    \cup {Row("XYZ", "Buy", 1, 4), Row("ABC", "Buy", 1, 2), Row("ABC", "Sell", 1, 2)}

\* the Trade pushed for a row of the separate buy-price/sell-price schema
RowToTrade(row, n) ==
    [row |-> n,
     Date |-> row.Date,
     Time |-> row.Time,
     Symbol |-> row.Symbol,
     Direction |-> IF row.Side = "Buy" THEN "Buy" ELSE "Sell",
     Price |-> row.Price,
     Quantity |-> row.Quantity,
     fullQty |-> row.Quantity,
     Charges |-> RInt(row.Charges),
     stopDistance |-> 0,
     buyPriceRaw |-> IF row.Side = "Buy" /\ row.Price # 0 THEN row.Price ELSE NoPrice,
     sellPriceRaw |-> IF row.Side # "Buy" /\ row.Price # 0 THEN row.Price ELSE NoPrice]

\* no call of pairRoundTripsAndOpen is under way
PairIdle ==
    [pc |-> "idle", input |-> <<>>, sorted |-> <<>>, i |-> 0,
     openPositions |-> [s \in Symbols |-> <<>>], legObject |-> [s \in Symbols |-> <<>>],
     roundTrips |-> <<>>, qtyToClose |-> 0, iterations |-> 0, legsAtStart |-> 0]

UploadIdle ==
    /\ clients = {}
    /\ req = <<>>
    /\ db = <<>>
    /\ lastStats = NoStats
    /\ uploaded = {}

Init ==
    /\ trades = <<>>
    /\ stats = NoStats
    /\ pairing = PairIdle
    /\ UploadIdle

\* .on("data", row => trades.push({...}))
ParseRow ==
    /\ stats = NoStats
    /\ Len(trades) < MaxTrades
    /\ \E row \in Rows : trades' = Append(trades, RowToTrade(row, Len(trades) + 1))
    /\ UNCHANGED <<stats, pairing, uploadVars>>

\* processTrades(trades), reached only when trades.length > 0
ProcessTrades ==
    /\ stats = NoStats
    /\ Len(trades) > 0
    /\ stats' = processTrades(trades)
    /\ UNCHANGED <<trades, pairing, uploadVars>>

Next == ParseRow \/ ProcessTrades

Spec == Init /\ [][Next]_vars

\* ------------------------------------------------ an intraday order book
\* executions of one morning without charges: 09:30 at 10, 09:32 at 11, 09:50 at 15
TagFills ==
    <<[Date |-> 1, Time |-> 570, Price |-> 10, Charges |-> 0],
      [Date |-> 1, Time |-> 572, Price |-> 11, Charges |-> 0],
      [Date |-> 1, Time |-> 590, Price |-> 15, Charges |-> 0]>>

TagRows ==
    {[Symbol |-> "XYZ", Side |-> side, Quantity |-> q, Price |-> TagFills[f].Price,
      Charges |-> TagFills[f].Charges, Date |-> TagFills[f].Date, Time |-> TagFills[f].Time] :
        side \in Directions, q \in Quantities, f \in DOMAIN TagFills}

\* .on("data", row => trades.push({...})) on a row of the intraday book
ParseTagRow ==
    /\ stats = NoStats
    /\ Len(trades) < MaxTrades
    /\ \E row \in TagRows : trades' = Append(trades, RowToTrade(row, Len(trades) + 1))
    /\ UNCHANGED <<stats, pairing, uploadVars>>

NextTag == ParseTagRow \/ ProcessTrades

SpecTag == Init /\ [][NextTag]_vars

\* ------------------------------------------------ a busy order book
MaxDayRows == 8

\* single purchases in the morning of day 1, one unit sold later that day, and seven
\* units (overtradeLimit + 2) sold at a loss on day 2
DayRows ==
    {[Symbol |-> "XYZ", Side |-> "Buy", Quantity |-> 1, Price |-> 10, Charges |-> 0,
      Date |-> 1, Time |-> 570],
     [Symbol |-> "XYZ", Side |-> "Sell", Quantity |-> 1, Price |-> 11, Charges |-> 0,
      Date |-> 1, Time |-> 600],
     [Symbol |-> "XYZ", Side |-> "Sell", Quantity |-> overtradeLimit + 2, Price |-> 9,
      Charges |-> 0, Date |-> 2, Time |-> 600]}

\* .on("data", row => trades.push({...})) on a row of the busy book
ParseDayRow ==
    /\ stats = NoStats
    /\ Len(trades) < MaxDayRows
    /\ \E row \in DayRows : trades' = Append(trades, RowToTrade(row, Len(trades) + 1))
    /\ UNCHANGED <<stats, pairing, uploadVars>>

NextDay == ParseDayRow \/ ProcessTrades

SpecDay == Init /\ [][NextDay]_vars

\* ------------------------------------------------ a morning of losses
MaxLossRows == 4

\* executions without charges: 09:30 at 11, 09:32 at 10, 09:47 at 9, 09:48 at 12,
\* 10:00 at 8, and two without a time cell, at 11 and at 10
LossFills ==
    <<[Date |-> 1, Time |-> 570, Price |-> 11, Charges |-> 0],
      [Date |-> 1, Time |-> 572, Price |-> 10, Charges |-> 0],
      [Date |-> 1, Time |-> 587, Price |-> 9, Charges |-> 0],
      [Date |-> 1, Time |-> 588, Price |-> 12, Charges |-> 0],
      [Date |-> 1, Time |-> 600, Price |-> 8, Charges |-> 0],
      [Date |-> 1, Time |-> NoTime, Price |-> 11, Charges |-> 0],
      [Date |-> 1, Time |-> NoTime, Price |-> 10, Charges |-> 0]>>

LossRow(side, quantity, fill) ==
    [Symbol |-> "XYZ", Side |-> side, Quantity |-> quantity, Price |-> LossFills[fill].Price,
     Charges |-> LossFills[fill].Charges, Date |-> LossFills[fill].Date,
     Time |-> LossFills[fill].Time]

\* purchases at 09:30, 09:47, 09:48 and without a time; sales at 09:32, 10:00 and without
\* a time; the sale of 09:32 and the purchases of 09:47 and 09:48 also in two units, which
\* turn the position over
LossRows ==
    {LossRow("Buy", 1, 1), LossRow("Sell", 1, 2), LossRow("Sell", 2, 2),
     LossRow("Buy", 1, 3), LossRow("Buy", 2, 3), LossRow("Buy", 1, 4), LossRow("Buy", 2, 4),
     LossRow("Sell", 1, 5), LossRow("Buy", 1, 6), LossRow("Sell", 1, 7)}

\* .on("data", row => trades.push({...})) on a row of the morning of losses
ParseLossRow ==
    /\ stats = NoStats
    /\ Len(trades) < MaxLossRows
    /\ \E row \in LossRows : trades' = Append(trades, RowToTrade(row, Len(trades) + 1))
    /\ UNCHANGED <<stats, pairing, uploadVars>>

NextLoss == ParseLossRow \/ ProcessTrades

SpecLoss == Init /\ [][NextLoss]_vars

\* ------------------------------------------------ pairing, step by step
\* The caller's Trade objects are pairing.input, numbered by their place in the list;
\* `sorted` holds references to them. An open leg is an object of its own or one of the
\* caller's: legObject gives, leg by leg, 0 or the number of the caller's object.

\* XYZ at 09:16 on both sides in one or two units; XYZ without a time on both sides, XYZ
\* at 09:30 bought in one unit and sold in two, ABC at 09:16 on both sides, and a sale of
\* XYZ whose quantity cell reads -1
PairRows ==
    {Row("XYZ", side, q, 2) : side \in Directions, q \in {1, 2}}
    \cup {Row("XYZ", side, 1, 1) : side \in Directions}
    \cup {Row("XYZ", "Buy", 1, 3), Row("XYZ", "Sell", 2, 3)}
    \cup {Row("ABC", side, 1, 2) : side \in Directions}
    \cup {Row("XYZ", "Sell", -1, 3)}

\* .on("data", row => trades.push({...})), before processTrades is called
ParsePairRow ==
    /\ pairing.pc = "idle"
    /\ stats = NoStats
    /\ Len(trades) < MaxTrades
    /\ \E row \in PairRows : trades' = Append(trades, RowToTrade(row, Len(trades) + 1))
    /\ UNCHANGED <<stats, pairing, uploadVars>>

\* trades.filter(...).sort(...): a new array of references to the caller's objects
SortedRefs(ts) == LET sorted == SortedTrades(ts) IN [k \in DOMAIN sorted |-> sorted[k].row]

\* a slip that pushes the caller's object itself
LegObjectShared(trade) == trade.row

\* openLegs.push({ ...trade, _fullQty: ... }): the leg is a new object
LegObject(trade) == 0

\* a slip that forgets qtyToClose -= closeQty
QtyLeftKept(qtyToClose, closeQty) == qtyToClose

\* qtyToClose -= closeQty
QtyLeft(qtyToClose, closeQty) == qtyToClose - closeQty

\* the call: const sorted = ...; const roundTrips = []; const openPositions = {}
StartPairing ==
    /\ pairing.pc = "idle"
    /\ Len(trades) > 0
    /\ pairing' = [PairIdle EXCEPT !.pc = "for", !.input = trades,
                                   !.sorted = SortedRefs(trades), !.i = 1]
    /\ UNCHANGED <<trades, stats, uploadVars>>

\* for (const trade of sorted): the trade at hand and the queue of its symbol
PairTradeNow == pairing.input[pairing.sorted[pairing.i]]
PairLegsNow == pairing.openPositions[PairTradeNow.Symbol]
PairCloses ==
    Len(PairLegsNow) > 0 /\ PairTradeNow.Direction # PairLegsNow[1].Direction

\* else { openLegs.push({ ...trade, _fullQty: trade._fullQty ?? trade.Quantity }) }
OpenLeg ==
    /\ pairing.pc = "for"
    /\ pairing.i <= Len(pairing.sorted)
    /\ ~PairCloses
    /\ pairing' = [pairing EXCEPT
                       !.openPositions[PairTradeNow.Symbol] = PushLeg(@, PairTradeNow),
                       !.legObject[PairTradeNow.Symbol] = Append(@, LegObject(PairTradeNow)),
                       !.i = @ + 1]
    /\ UNCHANGED <<trades, stats, uploadVars>>

\* if (openLegs.length > 0 && trade.Direction !== openLegs[0].Direction)
\*   { let qtyToClose = trade.Quantity
BeginClose ==
    /\ pairing.pc = "for"
    /\ pairing.i <= Len(pairing.sorted)
    /\ PairCloses
    /\ pairing' = [pairing EXCEPT !.pc = "while", !.qtyToClose = PairTradeNow.Quantity,
                                  !.iterations = 0, !.legsAtStart = Len(PairLegsNow)]
    /\ UNCHANGED <<trades, stats, uploadVars>>

\* the locals after one iteration of the close loop
Sliced ==
    LET symbol == PairTradeNow.Symbol
        entryLeg == PairLegsNow[1]
        object == pairing.legObject[symbol][1]
        closeQty == Min(pairing.qtyToClose, entryLeg.Quantity)
        stays == FrontLegStays(entryLeg, closeQty)
    IN  [pairing EXCEPT
            !.roundTrips = Append(@, SliceRoundTrip(entryLeg, PairTradeNow, closeQty)),
            !.openPositions[symbol] = AfterSlice(@, closeQty),
            !.legObject[symbol] = IF stays THEN @ ELSE Tail(@),
            !.input = IF stays /\ object # 0
                      THEN [@ EXCEPT ![object].Quantity = @ - closeQty] ELSE @,
            !.qtyToClose = QtyLeft(@, closeQty),
            !.iterations = @ + 1]

\* one iteration of while (openLegs.length && qtyToClose > 0)
CloseSlice ==
    /\ pairing.pc = "while"
    /\ Len(PairLegsNow) > 0 /\ pairing.qtyToClose > 0
    /\ pairing' = Sliced
    /\ UNCHANGED <<trades, stats, uploadVars>>

\* the loop is left: if (qtyToClose > 0) openPositions[symbol].push(remainder)
EndClose ==
    /\ pairing.pc = "while"
    /\ ~(Len(PairLegsNow) > 0 /\ pairing.qtyToClose > 0)
    /\ pairing' = [pairing EXCEPT
                       !.pc = "for",
                       !.openPositions[PairTradeNow.Symbol] =
                           PushRemainder(@, PairTradeNow, pairing.qtyToClose),
                       !.legObject[PairTradeNow.Symbol] =
                           IF pairing.qtyToClose > 0 THEN Append(@, 0) ELSE @,
                       !.i = @ + 1]
    /\ UNCHANGED <<trades, stats, uploadVars>>

\* return { roundTrips, openLegsBySymbol: openPositions }
EndPairing ==
    /\ pairing.pc = "for"
    /\ pairing.i > Len(pairing.sorted)
    /\ pairing' = [pairing EXCEPT !.pc = "done"]
    /\ UNCHANGED <<trades, stats, uploadVars>>

PairStep == OpenLeg \/ BeginClose \/ CloseSlice \/ EndClose \/ EndPairing

NextPair ==
    \/ ParsePairRow
    \/ StartPairing
    \/ OpenLeg
    \/ BeginClose
    \/ CloseSlice
    \/ EndClose
    \/ EndPairing

SpecPair == Init /\ [][NextPair]_vars

\* a short book of one symbol and one minute, so that the order of the file decides: one
\* unit bought, two units sold, and a sale whose quantity cell reads -1
LiveRows == {Row("XYZ", "Buy", 1, 2), Row("XYZ", "Sell", 2, 2), Row("XYZ", "Sell", -1, 2)}

\* .on("data", row => trades.push({...})) on a row of the short book
ParseLiveRow ==
    /\ pairing.pc = "idle"
    /\ stats = NoStats
    /\ Len(trades) < MaxTrades
    /\ \E row \in LiveRows : trades' = Append(trades, RowToTrade(row, Len(trades) + 1))
    /\ UNCHANGED <<stats, pairing, uploadVars>>

NextPairLive ==
    \/ ParseLiveRow
    \/ StartPairing
    \/ OpenLeg
    \/ BeginClose
    \/ CloseSlice
    \/ EndClose
    \/ EndPairing

\* the call is synchronous: once started it runs on without yielding
SpecPairLive == Init /\ [][NextPairLive]_vars /\ WF_vars(PairStep)

\* -------------------------------------------------------- the upload route
MaxFileRows == 2
MaxUploads == 2

\* the rows of the uploaded files: a buy, a sell, and a row whose quantity cell is unreadable
UploadRows ==
    {Row("XYZ", "Buy", 1, 2), Row("XYZ", "Sell", 1, 3), Row("XYZ", "Buy", 0, 2)}

RECURSIVE SeqsUpTo(_, _)
SeqsUpTo(S, n) ==
    IF n = 0 THEN {<<>>}
    ELSE LET shorter == SeqsUpTo(S, n - 1)
         IN  shorter \cup {Append(q, x) : q \in {p \in shorter : Len(p) = n - 1}, x \in S}

\* a file without a line that names columns
NoHeaderFile == [header |-> FALSE, columns |-> "", rows |-> <<>>]

\* a file whose header line starts with `columns`, as it is spelled in the file
FileOf(columns, rows) == [header |-> TRUE, columns |-> columns, rows |-> rows]

\* the uploaded files: a known header line followed by data rows (none: the header alone),
\* or no known header line at all
Files ==
    {FileOf("Scrip/Contract", q) : q \in SeqsUpTo(UploadRows, MaxFileRows)}
    \cup {NoHeaderFile}

\* the first column of the three header signatures
possibleHeaders == <<"Scrip/Contract", "symbol", "Scrip Name">>

\* s.replace(/\s/g, "").toLowerCase(), on the spellings the files use
Squash(s) ==
    CASE s = "Scrip/Contract" -> "scrip/contract"
      [] s = "symbol" -> "symbol"
      [] s = "SYMBOL" -> "symbol"
      [] s = "Scrip Name" -> "scripname"
      [] OTHER -> s

\* a slip that takes the first line for the header without looking at it
HeaderTakenForGranted(file) == 0

\* findTradeTableHeaderIndex: the index of the first line that starts with a known header
\* signature (the header is the first line of these files), -1 when there is none
findTradeTableHeaderIndex(file) ==
    IF file.header
       /\ \E h \in DOMAIN possibleHeaders : Squash(file.columns) = Squash(possibleHeaders[h])
    THEN 0 ELSE -1

\* csvParser(): every data row becomes an object keyed by the header line's column names
\* as they are spelled there; a key the header does not have reads as undefined ("")
csvParser(file) ==
    [n \in DOMAIN file.rows |->
        [symbol |-> IF file.columns = "symbol" THEN file.rows[n].Symbol ELSE "",
         ScripContract |-> IF file.columns = "Scrip/Contract" THEN file.rows[n].Symbol ELSE "",
         cells |-> file.rows[n]]]

\* the Trade pushed for a row of the symbol/trade_type/price schema: no charges and no
\* raw buy and sell prices
SymbolRowToTrade(row, n) ==
    [row |-> n,
     Date |-> row.Date,
     Time |-> row.Time,
     Symbol |-> row.Symbol,
     Direction |-> IF row.Side = "Buy" THEN "Buy" ELSE "Sell",
     Price |-> row.Price,
     Quantity |-> row.Quantity,
     fullQty |-> row.Quantity,
     Charges |-> RZero,
     stopDistance |-> 0,
     buyPriceRaw |-> NoPrice,
     sellPriceRaw |-> NoPrice]

\* the .on("data") handler over the rows below the header: if (row["symbol"]) ... else
\* if (row["Scrip/Contract"]) ...; a row with neither enters no branch and pushes nothing
RECURSIVE ParseRowsFrom(_, _, _)
ParseRowsFrom(rows, n, ts) ==
    IF n > Len(rows) THEN ts
    ELSE ParseRowsFrom(rows, n + 1,
             IF rows[n].symbol # "" THEN Append(ts, SymbolRowToTrade(rows[n].cells, n))
             ELSE IF rows[n].ScripContract # "" THEN Append(ts, RowToTrade(rows[n].cells, n))
             ELSE ts)

\* parseUniversalTradebook on a file with a known header
ParseFile(file) == ParseRowsFrom(csvParser(file), 1, <<>>)

\* the route's normalizeTradeDate, on a date that is already YYYY-MM-DD: its first ten
\* characters, the date itself
RouteNormalizeDate(date) == date

\* t.Direction.toUpperCase()
ToUpperCase(direction) == IF direction = "Buy" THEN "BUY" ELSE "SELL"

\* a query that forgets to upper-case the side
DocOfRawSide(t) ==
    [date |-> RouteNormalizeDate(t.Date), symbol |-> t.Symbol, entry |-> t.Price,
     tradeType |-> t.Direction, quantity |-> t.Quantity]

\* the document looked up and inserted for a trade
DocOf(t) ==
    [date |-> RouteNormalizeDate(t.Date), symbol |-> t.Symbol, entry |-> t.Price,
     tradeType |-> ToUpperCase(t.Direction), quantity |-> t.Quantity]

\* the findOne filter of the persistence loop
QueryOf(t) == DocOf(t)

\* db.collection("executed_trades").findOne(query): is there a matching document
FindOne(store, query) == query \in DOMAIN store /\ store[query] > 0

\* db.collection("executed_trades").insertOne(doc)
InsertOne(store, doc) ==
    IF doc \in DOMAIN store THEN [store EXCEPT ![doc] = @ + 1] ELSE store @@ (doc :> 1)

\* if (!t.Date || !t.Symbol || !t.Direction || !t.Price || !t.Quantity) continue;
Persistable(t) ==
    t.Date # NoDate /\ t.Symbol # "" /\ t.Direction \in Directions /\ t.Price # 0 /\ t.Quantity # 0

\* the next row at or after i that the persistence loop does not skip
RECURSIVE NextPersistable(_, _)
NextPersistable(ts, i) ==
    IF i > Len(ts) \/ Persistable(ts[i]) THEN i ELSE NextPersistable(ts, i + 1)

\* no GET /stats answered yet
NoBody == [status |-> 0]

\* a client's handler locals and position, with bookkeeping: `stamp` numbers the reports in
\* the order processTrades computed them and `computed` is the client's latest one;
\* `body` is the answer to the client's last GET /stats and `statsBefore` what lastStats
\* held when the client's latest upload arrived
IdleReq ==
    [pc |-> "idle", file |-> NoHeaderFile, trades |-> <<>>, i |-> 0, savedCount |-> 0, status |-> 0,
     uploads |-> 0, again |-> FALSE, dbBefore |-> <<>>,
     stamp |-> 0, computed |-> NoStats, body |-> NoBody,
     fileExists |-> FALSE, parsedExists |-> FALSE, statsBefore |-> NoStats]

LastStamp == IF \A c \in clients : req[c].stamp = 0 THEN 0
             ELSE CHOOSE n \in {req[c].stamp : c \in clients} :
                      \A c \in clients : req[c].stamp <= n

UploadsStarted == SumFn(clients, [c \in clients |-> req[c].uploads])

InitUploadOf(cs) ==
    /\ trades = <<>>
    /\ stats = NoStats
    /\ clients = cs
    /\ req = [c \in cs |-> IdleReq]
    /\ db = <<>>
    /\ lastStats = NoStats
    /\ uploaded = {}
    /\ pairing = PairIdle

\* a slip that answers without removing the upload
UnlinkForgotten(r) == r

\* fs.unlinkSync(filePath): the file multer stored at req.file.path is removed
unlinkSync(r) == [r EXCEPT !.fileExists = FALSE]

\* catch (err) { if (fs.existsSync(filePath)) fs.unlinkSync(filePath); ... }
CatchUnlink(r) == IF r.fileExists THEN unlinkSync(r) ELSE r

\* fs.writeFileSync(tempCsv, tradeTable), reached only when a header line was found
WriteParsed(r, file) == [r EXCEPT !.parsedExists = findTradeTableHeaderIndex(file) # -1]

\* .on("end", () => { try { fs.unlinkSync(tempCsv) } catch {} resolve(trades) })
StreamEnd(r) == [r EXCEPT !.parsedExists = FALSE]

\* the handler has answered: res.status(...).json(...) and return
Respond(c, r, status) ==
    /\ req' = [req EXCEPT ![c] = [r EXCEPT !.pc = "idle", !.status = status]]
    /\ uploaded' = IF status = 200 THEN uploaded \cup {r.file} ELSE uploaded

\* the persistence loop from row i on: skip rows, then findOne or finish
ContinueLoop(c, r, i) ==
    LET j == NextPersistable(r.trades, i)
    IN  IF j > Len(r.trades)
        THEN Respond(c, unlinkSync([r EXCEPT !.i = j]), 200)
        ELSE /\ req' = [req EXCEPT ![c] = [r EXCEPT !.i = j, !.pc = "find"]]
             /\ UNCHANGED uploaded

\* POST /upload-orderbook with one of `files`: multer has stored the file, and the handler
\* runs up to await parseUniversalTradebook, whose synchronous part looks for the header
\* line and writes the '.parsed.csv' file
StartUpload(c, files) ==
    /\ req[c].pc = "idle"
    /\ UploadsStarted < MaxUploads
    /\ \E file \in files :
          req' = [req EXCEPT ![c] =
                     WriteParsed(
                         [@ EXCEPT !.pc = "parsing", !.file = file, !.trades = <<>>, !.i = 0,
                                   !.savedCount = 0, !.status = 0, !.uploads = @ + 1,
                                   !.again = file \in uploaded, !.dbBefore = db,
                                   !.fileExists = TRUE, !.statsBefore = lastStats],
                         file)]
    /\ UNCHANGED <<trades, stats, pairing, clients, db, lastStats, uploaded>>

BeginUpload(c) == StartUpload(c, Files)

\* the parse settles: error, no trades, or lastStats = processTrades(trades) and the loop
ParsedUpload(c) ==
    /\ req[c].pc = "parsing"
    /\ IF findTradeTableHeaderIndex(req[c].file) = -1
       THEN Respond(c, CatchUnlink(req[c]), 500) /\ UNCHANGED lastStats
       ELSE LET ts == ParseFile(req[c].file)
                r == StreamEnd(req[c])
            IN  IF Len(ts) = 0
                THEN Respond(c, unlinkSync(r), 400) /\ UNCHANGED lastStats
                ELSE /\ lastStats' = processTrades(ts)
                     /\ ContinueLoop(c, [r EXCEPT !.trades = ts,
                                                  !.stamp = LastStamp + 1,
                                                  !.computed = processTrades(ts)], 1)
    /\ UNCHANGED <<trades, stats, pairing, clients, db>>

\* await findOne(...) returns; if (!exists) the handler calls insertOne
FindReturn(c) ==
    /\ req[c].pc = "find"
    /\ IF FindOne(db, QueryOf(req[c].trades[req[c].i]))
       THEN ContinueLoop(c, req[c], req[c].i + 1)
       ELSE req' = [req EXCEPT ![c].pc = "insert"] /\ UNCHANGED uploaded
    /\ UNCHANGED <<trades, stats, pairing, clients, db, lastStats>>

\* await insertOne(...) returns; savedCount++ and the loop goes on
InsertReturn(c) ==
    /\ req[c].pc = "insert"
    /\ db' = InsertOne(db, DocOf(req[c].trades[req[c].i]))
    /\ ContinueLoop(c, [req[c] EXCEPT !.savedCount = @ + 1], req[c].i + 1)
    /\ UNCHANGED <<trades, stats, pairing, clients, lastStats>>

\* a findOne or insertOne rejects: catch (err) answers 500
DbError(c) ==
    /\ req[c].pc \in {"find", "insert"}
    /\ Respond(c, CatchUnlink(req[c]), 500)
    /\ UNCHANGED <<trades, stats, pairing, clients, db, lastStats>>

NextUpload ==
    \/ \E c \in clients : BeginUpload(c)
    \/ \E c \in clients : ParsedUpload(c)
    \/ \E c \in clients : FindReturn(c)
    \/ \E c \in clients : InsertReturn(c)
    \/ \E c \in clients : DbError(c)

\* --------------------------------------------------------- report readback
\* the literal GET /stats answers with while lastStats is null
EmptyShape ==
    [netPnl |-> RZero,
     tradeWinPercent |-> RZero,
     profitFactor |-> RZero,
     dayWinPercent |-> RZero,
     avgWinLoss |-> [avgWin |-> RZero, avgLoss |-> RZero],
     upholicScore |-> 0,
     upholicPointers |-> [patience |-> 0, demonFinder |-> <<>>, planOfAction |-> <<>>],
     trades |-> <<>>,
     tradeDates |-> <<>>,
     empty |-> TRUE,
     totalBadTradeCost |-> RZero,
     goodPracticeCounts |-> <<>>]

\* res.json(lastStats): JSON.stringify writes Infinity as null; finite numbers, strings,
\* booleans, arrays and objects keep their value
ToJson(s) == [s EXCEPT !.profitFactor = IF @ = Infinity THEN "null" ELSE @]

\* a slip that answers with the empty literal whatever lastStats holds
StatsResponseAlwaysEmpty(ls) == EmptyShape

\* if (!lastStats) res.status(200).json({...}) else res.status(200).json(lastStats)
StatsResponse(ls) == IF ls = NoStats THEN EmptyShape ELSE ToJson(ls)

\* GET /stats by client c; `asOf` notes how many reports had been computed by then
GetStats(c) ==
    /\ req[c].pc = "idle"
    /\ req' = [req EXCEPT ![c].body =
                  [status |-> 200, json |-> StatsResponse(lastStats), asOf |-> LastStamp]]
    /\ UNCHANGED <<trades, stats, pairing, clients, db, lastStats, uploaded>>

\* the files of the readback runs: one without a known header, one whose report has no
\* round-trip, one whose report has a round-trip
ReadFiles ==
    {NoHeaderFile,
     FileOf("Scrip/Contract", <<Row("XYZ", "Buy", 1, 2)>>),
     FileOf("Scrip/Contract", <<Row("XYZ", "Buy", 1, 2), Row("XYZ", "Sell", 1, 3)>>)}

BeginReadUpload(c) == StartUpload(c, ReadFiles)

NextRead ==
    \/ \E c \in clients : BeginReadUpload(c)
    \/ \E c \in clients : ParsedUpload(c)
    \/ \E c \in clients : FindReturn(c)
    \/ \E c \in clients : InsertReturn(c)
    \/ \E c \in clients : DbError(c)
    \/ \E c \in clients : GetStats(c)

\* two clients that upload and read back in any order
SpecRead == InitUploadOf({"c1", "c2"}) /\ [][NextRead]_vars

\* one client that uploads and reads back, each request after the one before was answered
SpecReadSeq == InitUploadOf({"c1"}) /\ [][NextRead]_vars

\* ---------------------------------------------- files with defective rows
\* two complete rows, and rows with one cell empty: the symbol, the side, the quantity
\* (parseInt gives 0) or the price (parseFloat gives 0)
CellRows ==
    {Row("XYZ", "Buy", 1, 2), Row("XYZ", "Sell", 1, 3),
     Row("", "Buy", 1, 2), Row("XYZ", "", 1, 3), Row("XYZ", "Buy", 0, 2),
     [Row("XYZ", "Sell", 1, 3) EXCEPT !.Price = 0]}

CellFiles == {FileOf("Scrip/Contract", q) : q \in SeqsUpTo(CellRows, MaxFileRows)}

\* POST /upload-orderbook with a file that may hold defective rows
BeginCellUpload(c) == StartUpload(c, CellFiles)

NextCells ==
    \/ \E c \in clients : BeginCellUpload(c)
    \/ \E c \in clients : ParsedUpload(c)
    \/ \E c \in clients : FindReturn(c)
    \/ \E c \in clients : InsertReturn(c)
    \/ \E c \in clients : DbError(c)

\* one client uploading files with defective rows
SpecCells == InitUploadOf({"c1"}) /\ [][NextCells]_vars

\* ------------------------------------------- files of every header signature
\* the spellings of the header line: the three signatures as the detector lists them, and
\* the second one in upper case
HeaderSpellings == {"Scrip/Contract", "symbol", "Scrip Name", "SYMBOL"}

\* a purchase, a sale, and a row whose symbol cell is empty
SignatureRows == {Row("XYZ", "Buy", 1, 2), Row("XYZ", "Sell", 1, 3), Row("", "Buy", 1, 2)}

SignatureFiles ==
    {FileOf(h, q) : h \in HeaderSpellings, q \in SeqsUpTo(SignatureRows, MaxFileRows)}

\* POST /upload-orderbook with a file of one of the header spellings
BeginSignatureUpload(c) == StartUpload(c, SignatureFiles)

NextHeaders ==
    \/ \E c \in clients : BeginSignatureUpload(c)
    \/ \E c \in clients : ParsedUpload(c)
    \/ \E c \in clients : FindReturn(c)
    \/ \E c \in clients : InsertReturn(c)
    \/ \E c \in clients : DbError(c)

\* one client uploading files of every header spelling
SpecHeaders == InitUploadOf({"c1"}) /\ [][NextHeaders]_vars

\* one client: every upload starts after the one before it was answered
SpecSeq == InitUploadOf({"c1"}) /\ [][NextUpload]_vars

\* two clients whose requests interleave at the awaits
SpecUpload == InitUploadOf({"c1", "c2"}) /\ [][NextUpload]_vars

\* ------------------------------------------------- properties of the report
Done == stats # NoStats
\* indices of the round-trips of the report, of one symbol, entered or exited by input row r
Trips == DOMAIN stats.trades
TripsOf(sym) == {i \in Trips : stats.trades[i].symbol = sym}
EntrySlices(r) == {i \in Trips : stats.trades[i].entry.row = r}
ExitSlices(r) == {i \in Trips : stats.trades[i].exit.row = r}
SliceQty(i) == stats.trades[i].entry.Quantity
RowsOf(sym) == {r \in DOMAIN trades : trades[r].Symbol = sym}
RowQty(r) == trades[r].Quantity
SignedRowQty(r) == IF trades[r].Direction = "Buy" THEN trades[r].Quantity ELSE -trades[r].Quantity
OpenOf(sym) == {j \in DOMAIN stats.openPositions : stats.openPositions[j].symbol = sym}
OpenQty(j) == stats.openPositions[j].quantity
\* what pairing has left unmatched of input row r
Remaining(r) == RowQty(r) - SumOver(EntrySlices(r), SliceQty) - SumOver(ExitSlices(r), SliceQty)

\* C1 as stated: per symbol, the matched quantities of the round-trips plus the open
\* quantity equal the sum of the quantities of all trades of the symbol.
C1_ConservationAsStated ==
    Done => \A sym \in Symbols :
        SumOver(TripsOf(sym), SliceQty) + SumOver(OpenOf(sym), OpenQty)
            = SumOver(RowsOf(sym), RowQty)

\* C1 amended: per symbol, every round-trip takes its matched quantity from its entry
\* trade and from its exit trade, so twice the matched quantities plus the open quantity
\* equal the sum of the quantities of all trades of the symbol.
C1_Conservation ==
    Done => \A sym \in Symbols :
        2 * SumOver(TripsOf(sym), SliceQty) + SumOver(OpenOf(sym), OpenQty)
            = SumOver(RowsOf(sym), RowQty)

\* a symbol closed in two or more slices that still has an open position
C1_Witness ==
    Done /\ \E sym \in Symbols : Cardinality(TripsOf(sym)) >= 2 /\ OpenOf(sym) # {}

\* the charges a round-trip leg carries for input row r
EntryCharges(i) == stats.trades[i].entry.Charges
ExitCharges(i) == stats.trades[i].exit.Charges
SlicedCharges(r) ==
    RAdd(RSumOver(EntrySlices(r), EntryCharges), RSumOver(ExitSlices(r), ExitCharges))

\* C2: the pro-rated charges of the slices of a trade that pairing consumed completely,
\* in two or more slices, sum to the trade's original charges.
C2_ChargeConservation ==
    Done => \A r \in DOMAIN trades :
        (Remaining(r) = 0 /\ Cardinality(EntrySlices(r)) + Cardinality(ExitSlices(r)) >= 2)
            => SlicedCharges(r) = trades[r].Charges

\* C3: per symbol and entry side, entry legs come from trades in non-decreasing time
\* order along the round-trip list, and when a leg of some trade is used as an entry
\* every older same-side trade of the symbol has already been consumed completely.
C3_OldestFirst ==
    Done => \A j \in Trips :
        LET e == stats.trades[j].entry
        IN  /\ \A i \in Trips :
                  (i < j /\ stats.trades[i].symbol = e.Symbol
                         /\ stats.trades[i].entry.Direction = e.Direction)
                      => TimeOf(stats.trades[i].entry) <= TimeOf(e)
            /\ \A r \in RowsOf(e.Symbol) :
                  (trades[r].Direction = e.Direction /\ TimeOf(trades[r]) < TimeOf(trades[e.row]))
                      => SumOver({i \in EntrySlices(r) : i < j}, SliceQty)
                           + SumOver(ExitSlices(r), SliceQty) = RowQty(r)

\* two entry legs of different times and prices closed one after the other, the older
\* one being the dearer
C3_Witness ==
    Done /\ \E i, j \in Trips :
        /\ i < j
        /\ stats.trades[i].symbol = stats.trades[j].symbol
        /\ stats.trades[i].exit.row = stats.trades[j].exit.row
        /\ TimeOf(stats.trades[i].entry) < TimeOf(stats.trades[j].entry)
        /\ stats.trades[i].entry.Price > stats.trades[j].entry.Price

\* C6: every round-trip has opposite entry and exit sides, the same quantity on both
\* legs, and a holding time that is not negative.
C6_RoundTripShape ==
    Done => \A i \in Trips :
        /\ stats.trades[i].entry.Direction # stats.trades[i].exit.Direction
        /\ stats.trades[i].entry.Quantity = stats.trades[i].exit.Quantity
        /\ stats.trades[i].holdingMinutes >= 0

\* a partial slice whose entry leg has no time
C6_Witness ==
    Done /\ \E i \in Trips :
        /\ stats.trades[i].entry.Time = NoTime
        /\ stats.trades[i].exit.Quantity < trades[stats.trades[i].exit.row].Quantity
        /\ stats.trades[i].holdingMinutes > 0

\* C7: a closing trade larger than the open legs flips the position: the symbol's open
\* position is the signed sum of its trades, and the first round-trip of the symbol after
\* such a closing trade has the trade's remainder as its entry leg.
C7_PositionFlip ==
    Done =>
        /\ \A sym \in Symbols :
              LET net == SumOver(RowsOf(sym), SignedRowQty)
              IN  IF net = 0 THEN OpenOf(sym) = {}
                  ELSE \E j \in OpenOf(sym) :
                          /\ OpenOf(sym) = {j}
                          /\ stats.openPositions[j].quantity = Abs(net)
                          /\ stats.openPositions[j].side = IF net > 0 THEN "Buy" ELSE "Sell"
        /\ \A i, k \in Trips :
              LET r == stats.trades[i].exit.row
              IN  (/\ i < k
                   /\ stats.trades[k].symbol = stats.trades[i].symbol
                   /\ \A m \in Trips : (i < m /\ m < k) => stats.trades[m].symbol # stats.trades[i].symbol
                   /\ stats.trades[k].exit.row # r
                   /\ SumOver(ExitSlices(r), SliceQty) < RowQty(r))
                  => /\ stats.trades[k].entry.row = r
                     /\ stats.trades[k].entry.Direction = trades[r].Direction

\* a trade that closed a position and whose remainder a later trade closed
C7_Witness ==
    Done /\ \E i, k \in Trips :
        /\ stats.trades[i].exit.row = stats.trades[k].entry.row
        /\ stats.trades[k].exit.Direction # trades[stats.trades[i].exit.row].Direction

\* C8: the P&L of a slice of quantity s is the price difference times s, minus the two
\* input trades' charges pro-rated by s over their full quantities.
C8_SlicePnL ==
    Done => \A i \in Trips :
        LET t == stats.trades[i]
            s == t.entry.Quantity
            eT == trades[t.entry.row]
            xT == trades[t.exit.row]
            gross == IF t.entry.Direction = "Buy"
                     THEN (t.exit.Price - t.entry.Price) * s
                     ELSE (t.entry.Price - t.exit.Price) * s
        IN  t.PnL = RSub(RSub(RInt(gross), RNorm(eT.Charges[1] * s, eT.Charges[2] * eT.fullQty)),
                         RNorm(xT.Charges[1] * s, xT.Charges[2] * xT.fullQty))

\* the input rows of a symbol that pairing left partly or wholly unmatched
LeftRows(sym) == {r \in RowsOf(sym) : Remaining(r) > 0}
LeftNotional(r) == trades[r].Price * Remaining(r)

\* C9: a symbol with unmatched quantity has exactly one open position, on the side of the
\* unmatched legs, for their total quantity, at their quantity-weighted average price
\* (to the cent, as the report gives it); a symbol with none has no open position.
C9_OpenPositions ==
    Done => \A sym \in Symbols :
        IF LeftRows(sym) = {} THEN OpenOf(sym) = {}
        ELSE \E j \in OpenOf(sym) :
                /\ OpenOf(sym) = {j}
                /\ \A r \in LeftRows(sym) : trades[r].Direction = stats.openPositions[j].side
                /\ stats.openPositions[j].quantity = SumOver(LeftRows(sym), Remaining)
                /\ stats.openPositions[j].avgPrice
                     = r2(RNorm(SumOver(LeftRows(sym), LeftNotional),
                                SumOver(LeftRows(sym), Remaining)))

\* Buy 1 @10, Buy 2 @11, Sell 2 @12: slices of 1 and 1, an open Buy of 1 at 11
C9_Witness ==
    /\ Done
    /\ Len(trades) = 3
    /\ \A r \in DOMAIN trades : trades[r].Symbol = "XYZ"
    /\ trades[1].Direction = "Buy" /\ trades[1].Quantity = 1 /\ trades[1].Price = 10
    /\ trades[2].Direction = "Buy" /\ trades[2].Quantity = 2 /\ trades[2].Price = 11
    /\ trades[3].Direction = "Sell" /\ trades[3].Quantity = 2 /\ trades[3].Price = 12
    /\ Len(stats.trades) = 2
    /\ stats.trades[1].entry.row = 1 /\ stats.trades[1].entry.Quantity = 1
    /\ stats.trades[2].entry.row = 2 /\ stats.trades[2].entry.Quantity = 1
    /\ stats.openPositions
         = <<[symbol |-> "XYZ", side |-> "Buy", quantity |-> 1, avgPrice |-> RInt(11)]>>

\* C10: no round-trip of the report is both a bad trade and a good trade.
C10_Exclusive ==
    Done => \A i \in Trips : ~(stats.trades[i].isBadTrade /\ stats.trades[i].isGoodTrade)

\* a bad trade that carries two good-practice tags, STOP LOSS RESPECTED among them
C10_Witness ==
    Done /\ \E i \in Trips :
        /\ stats.trades[i].isBadTrade
        /\ Len(stats.trades[i].GoodPracticeArr) >= 2
        /\ Includes(stats.trades[i].GoodPracticeArr, "STOP LOSS RESPECTED")

\* C11: a round-trip is a bad trade exactly when it has at least one demon tag and a
\* negative P&L; it is a good trade exactly when it has at least two good-practice tags,
\* no demon tag, and either a positive P&L or a loss that carries STOP LOSS RESPECTED.
C11_Classification ==
    Done => \A i \in Trips :
        LET t == stats.trades[i]
        IN  /\ t.isBadTrade <=> (Len(t.DemonArr) >= 1 /\ RLt(t.PnL, RZero))
            /\ t.isGoodTrade <=>
                  /\ Len(t.GoodPracticeArr) >= 2
                  /\ Len(t.DemonArr) = 0
                  /\ \/ RLt(RZero, t.PnL)
                     \/ RLt(t.PnL, RZero) /\ Includes(t.GoodPracticeArr, "STOP LOSS RESPECTED")

\* a report with a good trade that is a loss within the stop-loss tolerance, and a bad trade
C11_Witness ==
    Done /\ \E i, j \in Trips :
        /\ stats.trades[i].isGoodTrade
        /\ RLt(stats.trades[i].PnL, RZero)
        /\ Includes(stats.trades[i].GoodPracticeArr, "STOP LOSS RESPECTED")
        /\ stats.trades[j].isBadTrade

\* the bad trades of the report, and its good trades with a profit
BadTrips == {i \in Trips : stats.trades[i].isBadTrade}
GoodWinTrips == {i \in Trips : stats.trades[i].isGoodTrade /\ RLt(RZero, stats.trades[i].PnL)}
BadWithMain(d) == {i \in BadTrips : stats.trades[i].DemonArr[1] = d}
GoodWithMain(d) == {i \in GoodWinTrips : stats.trades[i].GoodPracticeArr[1] = d}
TripCost(i) == RAbs(stats.trades[i].PnL)
TripProfit(i) == stats.trades[i].PnL
BadCount(d) == stats.badTradeCounts[d].count
BadCost(d) == stats.badTradeCounts[d].totalCost
GoodCount(d) == stats.goodTradeCounts[d].count
GoodProfit(d) == stats.goodTradeCounts[d].totalProfit

\* C12: every bad trade is counted in the bucket of its first demon tag and in no other,
\* so the bucket counts sum to the number of bad trades and the bucket costs sum to
\* totalBadTradeCost; likewise every good trade with a profit is counted in the bucket of
\* its first good-practice tag, and the buckets sum to their number and to
\* totalGoodTradeProfit (totals to the cent, as the report gives them).
C12_PrimaryTagAttribution ==
    Done =>
        /\ \A d \in Range(standardDemons) :
              /\ BadCount(d) = Cardinality(BadWithMain(d))
              /\ BadCost(d) = RSumOver(BadWithMain(d), TripCost)
        /\ SumOver(Range(standardDemons), BadCount) = Cardinality(BadTrips)
        /\ r2(RSumOver(Range(standardDemons), BadCost)) = stats.totalBadTradeCost
        /\ stats.totalBadTradeCost = r2(RSumOver(BadTrips, TripCost))
        /\ \A d \in Range(standardGood) :
              /\ GoodCount(d) = Cardinality(GoodWithMain(d))
              /\ GoodProfit(d) = RSumOver(GoodWithMain(d), TripProfit)
        /\ SumOver(Range(standardGood), GoodCount) = Cardinality(GoodWinTrips)
        /\ r2(RSumOver(Range(standardGood), GoodProfit)) = stats.totalGoodTradeProfit
        /\ stats.totalGoodTradeProfit = r2(RSumOver(GoodWinTrips, TripProfit))

\* a report with a bad trade that carries two demon tags, and a good trade that is a loss
\* and so stays out of the profit buckets
C12_Witness ==
    Done /\ \E i \in BadTrips, j \in Trips :
        /\ Len(stats.trades[i].DemonArr) >= 2
        /\ stats.trades[j].isGoodTrade
        /\ j \notin GoodWinTrips

\* the round-trips of the report that carry demon tag d
TripsTagged(d) == {i \in Trips : Includes(stats.trades[i].DemonArr, d)}

\* C13: demonFinder holds the three most frequent demon tags: no demon tag left out of
\* it is attached to strictly more round-trips than a tag that is in it.
C13_MostFrequentDemons ==
    Done => \A out \in Range(standardDemons) \ Range(stats.upholicPointers.demonFinder) :
                \A in \in Range(stats.upholicPointers.demonFinder) :
                    Cardinality(TripsTagged(out)) <= Cardinality(TripsTagged(in))

\* C14: a winning round-trip with no winning round-trip before it in the report is never
\* tagged PREMATURE EXIT (the average win it is compared with is the average of the wins
\* before it).
C14_RunningAverage ==
    Done => \A i \in Trips :
        (/\ RLt(RZero, stats.trades[i].PnL)
         /\ \A j \in Trips : j < i => ~RLt(RZero, stats.trades[j].PnL))
            => ~Includes(stats.trades[i].DemonArr, "PREMATURE EXIT")

\* the upload with rows a and b exchanged
Exchanged(a, b) ==
    [n \in DOMAIN trades |-> IF n = a THEN trades[b] ELSE IF n = b THEN trades[a] ELSE trades[n]]
\* the headline of a trade list: net P&L, paired totals, and the rows of the scrip summary
HeadlineOf(ts) ==
    LET h == computePairedHeadlineFromRawSymbolFilter(ts)
    IN  [netPnl |-> r2(h.netPnl),
         pairedTotals |-> [buyQty |-> h.buyQty, sellQty |-> h.sellQty, avgBuy |-> h.avgBuy,
                           avgSell |-> h.avgSell, charges |-> h.charges, netPnl |-> h.netPnl],
         rows |-> Range(buildRawScripSummary(ts, h.pairedSymbols))]
\* the symbols with a Buy row and a Sell row, and a symbol's raw net over all its rows
BothSides(sym) ==
    /\ \E r \in RowsOf(sym) : trades[r].Direction = "Buy"
    /\ \E r \in RowsOf(sym) : trades[r].Direction = "Sell"
RowNet(r) ==
    RSub(RInt(IF trades[r].Direction = "Sell" THEN trades[r].Price * trades[r].Quantity
              ELSE -(trades[r].Price * trades[r].Quantity)),
         trades[r].Charges)
SymbolNet(sym) == RSumOver(RowsOf(sym), RowNet)

\* C16: the headline does not depend on the order of the rows: exchanging any two rows of
\* any upload (every permutation is a chain of such exchanges) gives the same net P&L, the
\* same paired totals and the same scrip summary rows, and the net P&L is the sum, over
\* the symbols with a Buy row and a Sell row, of sell notional minus buy notional minus
\* the full charges of the symbol's rows.
C16_HeadlineOrderFree ==
    Done =>
        /\ \A a, b \in DOMAIN trades :
              a < b =>
                  HeadlineOf(Exchanged(a, b))
                      = [netPnl |-> stats.netPnl, pairedTotals |-> stats.pairedTotals,
                         rows |-> Range(stats.scripSummary)]
        /\ stats.netPnl = r2(RSumOver({sym \in Symbols : BothSides(sym)}, SymbolNet))

\* two symbols, one with both sides whose Sell row comes before its Buy row and one with
\* a single side
C16_Witness ==
    Done /\ \E a, b \in DOMAIN trades :
        /\ a < b
        /\ trades[a].Symbol = "XYZ" /\ trades[a].Direction = "Sell"
        /\ trades[b].Symbol = "XYZ" /\ trades[b].Direction = "Buy"
        /\ TimeOf(trades[b]) < TimeOf(trades[a])
        /\ RowsOf("ABC") # {}
        /\ ~BothSides("ABC")
        /\ stats.netPnl # RZero

\* gross profit and gross loss over the round-trips of the report
WinTrips == {i \in Trips : RLt(RZero, stats.trades[i].PnL)}
LossTrips == {i \in Trips : RLt(stats.trades[i].PnL, RZero)}
GrossProfit == RSumOver(WinTrips, TripProfit)
GrossLoss == RSumOver(LossTrips, TripCost)

\* C17: the profit factor is gross profit over gross loss when there is a loss, infinity
\* when there is profit and no loss, and 0 when there is neither.
C17_ProfitFactor ==
    Done =>
        IF RLt(RZero, GrossLoss)
        THEN /\ stats.profitFactor # Infinity
             /\ stats.profitFactor[2] > 0
             /\ stats.profitFactor[1] * GrossLoss[1] * GrossProfit[2]
                    = GrossProfit[1] * GrossLoss[2] * stats.profitFactor[2]
        ELSE IF RLt(RZero, GrossProfit) THEN stats.profitFactor = Infinity
        ELSE stats.profitFactor = RZero

\* a report whose round-trips all made a profit
C17_Witness ==
    Done /\ Cardinality(WinTrips) >= 2 /\ LossTrips = {} /\ stats.profitFactor = Infinity

\* C28: when no symbol of the upload is left with an open position, the P&L of the
\* round-trips sum to the headline net P&L (to the cent, as the report gives it).
C28_Reconciliation ==
    (Done /\ stats.openPositions = <<>>)
        => r2(RSumOver(Trips, TripProfit)) = stats.netPnl

\* the round-trips up to and including i that exit on the date round-trip i exits on
SameDayUpTo(i) ==
    {j \in Trips : j <= i /\ stats.trades[j].exit.Date = stats.trades[i].exit.Date}
TripsOfDay(d) == {i \in Trips : stats.trades[i].exit.Date = d}
Overtraded(i) == Includes(stats.trades[i].DemonArr, "OVERTRADING")

\* C21: a round-trip carries OVERTRADING exactly when it is the 6th or a later round-trip
\* of its exit date, in report order; a day with n round-trips has max(0, n - 5) of them
\* tagged.
C21_Overtrading ==
    Done =>
        /\ \A i \in Trips : Overtraded(i) <=> Cardinality(SameDayUpTo(i)) >= 6
        /\ \A d \in Range(stats.tradeDates) :
              LET n == Cardinality(TripsOfDay(d))
              IN  Cardinality({i \in TripsOfDay(d) : Overtraded(i)})
                      = (IF n > 5 THEN n - 5 ELSE 0)

\* seven round-trips exit on one day: the sixth and the seventh carry the tag
C21_Witness ==
    Done /\ \E d \in Range(stats.tradeDates) :
        /\ Cardinality(TripsOfDay(d)) = 7
        /\ Cardinality({i \in TripsOfDay(d) : Overtraded(i)}) = 2

\* six round-trips over two days, five of them on the second: none carries the tag
C21_TwoDays ==
    Done /\ Len(stats.trades) = 6 /\ Len(stats.tradeDates) = 2
         /\ \A i \in Trips : ~Overtraded(i)

\* the losing round-trips before round-trip i, and the last of them
LossesBefore(i) == {j \in LossTrips : j < i}
LastLossBefore(i) == CHOOSE j \in LossesBefore(i) : \A k \in LossesBefore(i) : k <= j
Revenge(i) == Includes(stats.trades[i].DemonArr, "REVENGE TRADING")
MinutesAfterLastLoss(i) ==
    TimeOf(stats.trades[i].entry) - TimeOf(stats.trades[LastLossBefore(i)].exit)

\* C22: a round-trip carries REVENGE TRADING exactly when it is a loss with a known entry
\* time, a losing round-trip comes before it in the report, the last such round-trip has
\* the same entry direction, and the entry is 0 to 15 minutes after that round-trip's exit.
C22_RevengeTrading ==
    Done => \A i \in Trips :
        Revenge(i) <=>
            /\ i \in LossTrips
            /\ stats.trades[i].entry.Time # NoTime
            /\ LossesBefore(i) # {}
            /\ stats.trades[LastLossBefore(i)].entry.Direction = stats.trades[i].entry.Direction
            /\ MinutesAfterLastLoss(i) >= 0
            /\ MinutesAfterLastLoss(i) <= 15

\* a tagged loss entered 15 minutes after the exit of the last loss, with a winning
\* round-trip of the other direction between the two
C22_Witness ==
    Done /\ \E i \in Trips :
        /\ Revenge(i)
        /\ MinutesAfterLastLoss(i) = 15
        /\ LastLossBefore(i) < i - 1
        /\ i - 1 \in WinTrips
        /\ ~Revenge(LastLossBefore(i))

\* losses that stay untagged: entered 16 minutes after the last loss, entered without a
\* time at the minute of the last loss, entered before the last loss was closed, and
\* entered in the other direction
C22_Untagged ==
    Done /\ \E i \in LossTrips :
        /\ ~Revenge(i) /\ LossesBefore(i) # {}
        /\ stats.trades[LastLossBefore(i)].entry.Direction = stats.trades[i].entry.Direction
        /\ MinutesAfterLastLoss(i) = 16
C22_UntaggedNoTime ==
    Done /\ \E i \in LossTrips :
        /\ ~Revenge(i) /\ LossesBefore(i) # {}
        /\ stats.trades[LastLossBefore(i)].entry.Direction = stats.trades[i].entry.Direction
        /\ MinutesAfterLastLoss(i) = 0
        /\ stats.trades[i].entry.Time = NoTime
C22_UntaggedOtherDirection ==
    Done /\ \E i \in LossTrips :
        /\ ~Revenge(i) /\ LossesBefore(i) # {}
        /\ stats.trades[LastLossBefore(i)].entry.Direction # stats.trades[i].entry.Direction
        /\ MinutesAfterLastLoss(i) = 0
        /\ \E j \in LossesBefore(i) :
              stats.trades[j].entry.Direction = stats.trades[i].entry.Direction

\* ------------------------------------------------ properties of the pairing
\* C24: every iteration of the close loop removes the front open leg or brings the
\* quantity still to close to zero; a closing trade takes at most one iteration more than
\* there were open legs; and a call, once started, returns.
C24_PairingTerminates ==
    /\ [][(pairing.pc = "while" /\ pairing'.pc = "while")
              => \/ Len(pairing'.openPositions[PairTradeNow.Symbol])
                        = Len(pairing.openPositions[PairTradeNow.Symbol]) - 1
                 \/ pairing'.qtyToClose = 0]_vars
    /\ [](pairing.iterations <= pairing.legsAtStart + 1)
    /\ (pairing.pc # "idle") ~> (pairing.pc = "done")

\* a call has returned whose last closing trade took two iterations for two open legs
C24_Witness ==
    /\ pairing.pc = "done"
    /\ pairing.iterations = 2 /\ pairing.legsAtStart = 2
    /\ Len(pairing.roundTrips) = 2

\* a call has returned that closed a leg of quantity -1 and pushed a remainder
C24_NegativeLeg ==
    /\ pairing.pc = "done"
    /\ \E a \in DOMAIN pairing.roundTrips : pairing.roundTrips[a].entry.Quantity = -1
    /\ \E sym \in Symbols : Len(pairing.openPositions[sym]) = 1

\* C25: when the call returns, every Trade of the caller's list is what it was before the
\* call, so the rows stored afterwards carry the original quantities, and the result is
\* the function pairRoundTripsAndOpen of that list: a second call gives the same result.
C25_InputUntouched ==
    /\ pairing.pc # "idle" =>
          /\ pairing.input = trades
          /\ \A n \in DOMAIN trades : DocOf(pairing.input[n]) = DocOf(trades[n])
    /\ pairing.pc = "done" =>
          /\ pairing.roundTrips = pairRoundTripsAndOpen(pairing.input).roundTrips
          /\ pairing.openPositions = pairRoundTripsAndOpen(pairing.input).openPositions
          /\ pairing.roundTrips = pairRoundTripsAndOpen(trades).roundTrips

\* a call has returned that consumed part of an open leg: the leg in the queue has a
\* smaller quantity than the trade it came from
C25_Witness ==
    /\ pairing.pc = "done"
    /\ \E sym \in Symbols :
          /\ Len(pairing.openPositions[sym]) >= 1
          /\ LET leg == pairing.openPositions[sym][1]
             IN  leg.Quantity >= 1 /\ leg.Quantity < trades[leg.row].Quantity
    /\ Len(pairing.roundTrips) >= 1

\* the timestamp of the trade a reference of `sorted` points to
SortedTime(k) == TimeOf(trades[pairing.sorted[k]])

\* C26: whatever the order of the rows, `sorted` holds every trade that passes the filter
\* once, in non-decreasing order of timestamp (a missing time counts as 00:00) and in
\* the order of the file where timestamps are equal; along the round-trip list exit
\* timestamps do not decrease, and every entry leg comes from a trade taken before the
\* trade of its exit leg.
C26_ChronologicalPairing ==
    pairing.pc # "idle" =>
        /\ Range(pairing.sorted) = {n \in DOMAIN trades : TradeFilter(trades[n])}
        /\ \A k, m \in DOMAIN pairing.sorted :
              k < m => /\ pairing.sorted[k] # pairing.sorted[m]
                       /\ SortedTime(k) <= SortedTime(m)
                       /\ SortedTime(k) = SortedTime(m) => pairing.sorted[k] < pairing.sorted[m]
        /\ \A a, b \in DOMAIN pairing.roundTrips :
              a < b => TimeOf(pairing.roundTrips[a].exit) <= TimeOf(pairing.roundTrips[b].exit)
        /\ \A a \in DOMAIN pairing.roundTrips :
              \E k, m \in DOMAIN pairing.sorted :
                  /\ k < m /\ m <= pairing.i
                  /\ pairing.sorted[k] = pairing.roundTrips[a].entry.row
                  /\ pairing.sorted[m] = pairing.roundTrips[a].exit.row

\* a call has returned on a file whose last row is the earliest, with two rows of equal
\* timestamp, one of them without a time cell, and two round-trips
C26_Witness ==
    /\ pairing.pc = "done"
    /\ Len(trades) = 3
    /\ pairing.sorted[1] = 3
    /\ TimeOf(trades[1]) = TimeOf(trades[2])
    /\ trades[3].Time = NoTime
    /\ Len(pairing.roundTrips) = 2

\* C27: when every input quantity is 1 or more then, between trades, the open legs of a
\* symbol all have the same direction and each has a quantity of 1 or more.
C27_QueueInvariant ==
    (pairing.pc \in {"for", "done"} /\ \A n \in DOMAIN trades : trades[n].Quantity >= 1)
        => \A sym \in Symbols :
              \A k \in DOMAIN pairing.openPositions[sym] :
                  /\ pairing.openPositions[sym][k].Quantity >= 1
                  /\ pairing.openPositions[sym][k].Direction
                         = pairing.openPositions[sym][1].Direction

\* between two trades a queue holds a partly consumed leg followed by another leg
C27_Witness ==
    /\ pairing.pc = "for"
    /\ \A n \in DOMAIN trades : trades[n].Quantity >= 1
    /\ Len(pairing.roundTrips) >= 1
    /\ \E sym \in Symbols :
          /\ Len(pairing.openPositions[sym]) = 2
          /\ pairing.openPositions[sym][1].Quantity < pairing.openPositions[sym][1].fullQty

\* ------------------------------------------- properties of the upload route
\* a row with an empty symbol, side, quantity or price cell
MissingCell(row) ==
    row.Symbol = "" \/ row.Side \notin Directions \/ row.Quantity = 0 \/ row.Price = 0
Without(q, n) == SubSeq(q, 1, n - 1) \o SubSeq(q, n + 1, Len(q))
ReportWithout(file, n) == processTrades(ParseFile([file EXCEPT !.rows = Without(file.rows, n)]))

\* C15: a row missing its symbol, side, quantity or price takes no part in the report of
\* its upload: no round-trip has it as a leg, and the open positions, the headline net
\* P&L, the paired totals and the scrip summary are those of the upload without the row.
C15_DefectiveRowsDropped ==
    \A c \in clients :
        req[c].trades # <<>> =>
            \A n \in DOMAIN req[c].file.rows :
                MissingCell(req[c].file.rows[n]) =>
                    LET report == req[c].computed
                        without == ReportWithout(req[c].file, n)
                    IN  /\ \A i \in DOMAIN report.trades :
                              report.trades[i].entry.row # n /\ report.trades[i].exit.row # n
                        /\ report.openPositions = without.openPositions
                        /\ report.netPnl = without.netPnl
                        /\ report.pairedTotals = without.pairedTotals
                        /\ report.scripSummary = without.scripSummary

\* C18: when no line of the uploaded file starts with a known header signature, the
\* parse fails and the handler's next step answers 500, having inserted no row, computed
\* no report and left the last report as it was.
C18_UnrecognizedFile ==
    [][\A c \in clients :
          (req[c].pc = "parsing" /\ ~req[c].file.header /\ req'[c].pc # "parsing")
              => /\ req'[c].pc = "idle"
                 /\ req'[c].status = 500
                 /\ req'[c].savedCount = 0
                 /\ req'[c].stamp = req[c].stamp
                 /\ db' = db
                 /\ lastStats' = lastStats
                 /\ uploaded' = uploaded]_vars

\* an upload without a known header was answered 500 after another upload had stored rows
\* and computed a report
C18_Witness ==
    \E c \in clients :
        /\ req[c].pc = "idle" /\ req[c].status = 500 /\ ~req[c].file.header
        /\ lastStats # NoStats
        /\ \E doc \in DOMAIN db : db[doc] >= 1

\* the fields of a computed Stats
StatsFields == DOMAIN processTrades(<<>>)

\* C19: a readback before any report was computed answers 200 with a Stats that has the
\* fields of a computed Stats, with empty = true, zero aggregates and empty lists.
C19_EmptyShape ==
    \A c \in clients :
        (req[c].body # NoBody /\ req[c].body.asOf = 0)
            => /\ req[c].body.status = 200
               /\ req[c].body.json.empty = TRUE
               /\ req[c].body.json.netPnl = RZero
               /\ req[c].body.json.trades = <<>>
               /\ DOMAIN req[c].body.json = StatsFields

\* the report of the upload that was the n-th to compute one
ReportNo(n) == req[CHOOSE c \in clients : req[c].stamp = n].computed

\* C20: every readback is answered 200 with the report of the upload that was the latest
\* to compute one when the readback was made, whichever client sent it, and with the
\* empty literal only when none had been computed; at any time the answer a readback
\* would get is the latest computed report.
C20_OneLastReport ==
    /\ StatsResponse(lastStats)
           = (IF LastStamp = 0 THEN EmptyShape ELSE ToJson(ReportNo(LastStamp)))
    /\ \A c \in clients :
          req[c].body # NoBody =>
              /\ req[c].body.status = 200
              /\ req[c].body.asOf = 0 <=> req[c].body.json = EmptyShape
              /\ \A d \in clients :
                    (req[c].body.asOf > 0 /\ req[d].stamp = req[c].body.asOf)
                        => req[c].body.json = ToJson(req[d].computed)

\* a client that computed a report of its own has read back the later report of the
\* other client
C20_Witness ==
    \E c, d \in clients :
        /\ c # d
        /\ req[c].stamp > 0
        /\ req[d].stamp > req[c].stamp
        /\ req[c].body # NoBody
        /\ req[c].body.asOf = req[d].stamp
        /\ req[c].body.json = ToJson(req[d].computed)
        /\ req[c].body.json # ToJson(req[c].computed)

\* C23: once the handler of an upload has answered, with 200, 400 or 500, neither the
\* uploaded file nor the '.parsed.csv' file written from it exists; while the parse is
\* pending the upload exists, and the '.parsed.csv' file exists when a header was found.
C23_TempFileDiscarded ==
    \A c \in clients :
        /\ (req[c].pc = "idle" /\ req[c].uploads > 0)
              => (req[c].status \in {200, 400, 500}
                  /\ ~req[c].fileExists /\ ~req[c].parsedExists)
        /\ req[c].pc = "parsing"
              => (req[c].fileExists /\ req[c].parsedExists = req[c].file.header)
        /\ req[c].pc \in {"find", "insert"}
              => (req[c].fileExists /\ ~req[c].parsedExists)

\* an upload answered 500 by the catch block after a row of it had been stored
C23_Witness ==
    \E c \in clients :
        /\ req[c].pc = "idle" /\ req[c].status = 500 /\ req[c].file.header
        /\ req[c].savedCount = 1
        /\ ~req[c].fileExists

\* the other answers: success, no valid trades, no header line
C23_Answered200 ==
    \E c \in clients : req[c].pc = "idle" /\ req[c].status = 200 /\ req[c].savedCount > 0
C23_Answered400 ==
    \E c \in clients : req[c].pc = "idle" /\ req[c].status = 400 /\ req[c].file.header
C23_AnsweredNoHeader ==
    \E c \in clients : req[c].pc = "idle" /\ req[c].status = 500 /\ ~req[c].file.header

\* a data row that gives symbol, side, quantity and price
CompleteRow(row) ==
    row.Symbol # "" /\ row.Side \in Directions /\ row.Quantity # 0 /\ row.Price # 0

\* C30: an answered upload of a file whose header line the detector accepts and which has
\* a complete data row yielded at least one Trade and was not answered 400.
C30_EveryHeaderHasNormalizer ==
    \A c \in clients :
        (/\ req[c].pc = "idle" /\ req[c].status # 0
         /\ findTradeTableHeaderIndex(req[c].file) # -1
         /\ \E n \in DOMAIN req[c].file.rows : CompleteRow(req[c].file.rows[n]))
            => (Len(ParseFile(req[c].file)) >= 1 /\ req[c].status # 400)

\* C29: an upload answered with 400 or 500 leaves the last report as it was when the
\* upload arrived, so the GET /stats that follows answers what it answered before.
C29_FailedUploadKeepsReport ==
    \A c \in clients :
        (req[c].pc = "idle" /\ req[c].status \in {400, 500})
            => StatsResponse(lastStats) = StatsResponse(req[c].statsBefore)

\* ------------------------------------------------- properties of the store
\* C4: an upload of a file that was uploaded with success before saves nothing and leaves
\* the store as it found it, and after sequential uploads no document is stored twice.
C4_IdempotentReupload ==
    /\ \A c \in clients :
          (req[c].pc = "idle" /\ req[c].status = 200 /\ req[c].again)
              => (req[c].savedCount = 0 /\ db = req[c].dbBefore)
    /\ \A doc \in DOMAIN db : db[doc] <= 1

\* a second upload of a file with rows to persist has been answered with success
C4_Witness ==
    \E c \in clients :
        /\ req[c].pc = "idle" /\ req[c].status = 200 /\ req[c].again
        /\ \E n \in DOMAIN req[c].trades : Persistable(req[c].trades[n])
        /\ \E doc \in DOMAIN db : db[doc] = 1

\* C5: whatever the interleaving of concurrent uploads, the store never holds two
\* documents with the same date, symbol, price, side and quantity.
C5_NoDuplicateRows == \A doc \in DOMAIN db : db[doc] <= 1

====
